---- MODULE Spec2Model ----
(***************************************************************************)
(* UUIDv47: the reversible, keyed transformation between UUID version 7    *)
(* identifiers and their version 4 facades (src/src/core.ts), with the     *)
(* SipHash-2-4 mask generator (sip-hash.ts), the buffer helpers            *)
(* (byte-operations.ts) and the UUID field helpers (uuid.ts).              *)
(*                                                                         *)
(* A JavaScript bigint is an unbounded non-negative integer: it is         *)
(* modelled as the set of the positions of its 1 bits (bit 0 is the least   *)
(* significant), so that equal numbers are equal sets and a value of 2^64  *)
(* or more is representable.  A Buffer is a sequence of bytes (0..255)     *)
(* held in a heap and referred to by its index in the heap.                *)
(***************************************************************************)
EXTENDS Integers, Sequences, FiniteSets, TLC

(***************************************************************************)
(* bigint arithmetic                                                       *)
(***************************************************************************)
\* BigInt(n) for a JavaScript number 0 <= n < 2^31
BigInt(n) == {i \in 0..30 : (n \div (2 ^ i)) % 2 = 1}

RECURSIVE Number(_)
\* Number(b) for a bigint small enough to be a number
Number(b) ==
    IF b = {} THEN 0
    ELSE LET i == CHOOSE j \in b : TRUE IN (2 ^ i) + Number(b \ {i})

\* a ^ b
BigXor(a, b) == (a \ b) \cup (b \ a)

\* a | b
BigOr(a, b) == a \cup b

\* a & b
BigAnd(a, b) == a \cap b

\* a << n
BigShl(a, n) == {i + n : i \in a}

\* a >> n
BigShr(a, n) == {i - n : i \in {j \in a : j >= n}}

RECURSIVE BigAdd(_, _)
\* a + b: the sum without carries plus the carries, until no carry is left
BigAdd(a, b) == IF b = {} THEN a ELSE BigAdd(BigXor(a, b), BigShl(BigAnd(a, b), 1))

\* a bigint literal 0x...n, written as its bytes, most significant first
Hex(bs) == UNION {BigShl(BigInt(bs[i]), 8 * (Len(bs) - i)) : i \in 1..Len(bs)}

\* a < 2^w
Below(a, w) == \A i \in a : i < w

\* x & y, x & ~y and x | y on JavaScript numbers 0 <= x, y < 2^31
NumAnd(x, y) == Number(BigAnd(BigInt(x), BigInt(y)))

NumAndNot(x, y) == Number(BigInt(x) \ BigInt(y))

NumOr(x, y) == Number(BigOr(BigInt(x), BigInt(y)))

\* what a Buffer keeps of a number stored into one of its elements
Uint8(x) == x % 256

\* buffer[i], i counted from 0 as in the source
At(buffer, i) == buffer[i + 1]

\* buffer after buffer[i] = x
Put(buffer, i, x) == [buffer EXCEPT ![i + 1] = Uint8(x)]

\* Op(x), with x evaluated before Op is applied (call by value, as in the
\* source; an operator argument is otherwise evaluated only when used)
Strict(Op(_), x) == CHOOSE r \in {Op(w) : w \in {x}} : TRUE

(***************************************************************************)
(* constants.ts                                                            *)
(***************************************************************************)
V4 == 4

V7 == 7

UUID_BYTE_LENGTH == 16

SIPHASH_MESSAGE_LENGTH == 10

\* MASK_48_BITS with a bug: eight bits short
MASK_40_BITS == Hex(<<\Hff, \Hff, \Hff, \Hff, \Hff>>)

MASK_48_BITS == Hex(<<\Hff, \Hff, \Hff, \Hff, \Hff, \Hff>>)

VERSION_MASK == \H0f

VERSION_SHIFT == 4

VARIANT_MASK_CLEAR == \H3f

VARIANT_RFC4122 == \H80

V0_INIT == Hex(<<\H73, \H6f, \H6d, \H65, \H70, \H73, \H65, \H75>>)

V1_INIT == Hex(<<\H64, \H6f, \H72, \H61, \H6e, \H64, \H6f, \H6d>>)

V2_INIT == Hex(<<\H6c, \H79, \H67, \H65, \H6e, \H65, \H72, \H61>>)

V3_INIT == Hex(<<\H74, \H65, \H64, \H62, \H79, \H74, \H65, \H73>>)

FINALIZATION_XOR == Hex(<<\Hff>>)

BYTE == Hex(<<\Hff>>)

QWORD == Hex(<<\Hff, \Hff, \Hff, \Hff, \Hff, \Hff, \Hff, \Hff>>)

ROTATION_64 == 64

BITS_8 == 8

BITS_16 == 16

BITS_24 == 24

BITS_32 == 32

BITS_40 == 40

BITS_56 == 56

(***************************************************************************)
(* byte-operations.ts                                                      *)
(***************************************************************************)
\* buffer.readBigUInt64LE(offset); offset is 0-based
readUInt64LE(buffer, offset) ==
    UNION {BigShl(BigInt(At(buffer, offset + i)), 8 * i) : i \in 0..7}

\* write48BitsBE with a bug: the six bytes are stored one place too far
write48BitsBEOffByOne(buffer, value, offset) ==
    LET b0 == Put(buffer, offset + 1, Number(BigAnd(BigShr(value, BITS_40), BYTE)))
        b1 == Put(b0, offset + 2, Number(BigAnd(BigShr(value, BITS_32), BYTE)))
        b2 == Put(b1, offset + 3, Number(BigAnd(BigShr(value, BITS_24), BYTE)))
        b3 == Put(b2, offset + 4, Number(BigAnd(BigShr(value, BITS_16), BYTE)))
        b4 == Put(b3, offset + 5, Number(BigAnd(BigShr(value, BITS_8), BYTE)))
    IN  Put(b4, offset + 6, Number(BigAnd(value, BYTE)))

\* the bytes of buffer after write48BitsBE(buffer, value, offset)
write48BitsBE(buffer, value, offset) ==
    LET b0 == Put(buffer, offset, Number(BigAnd(BigShr(value, BITS_40), BYTE)))
        b1 == Put(b0, offset + 1, Number(BigAnd(BigShr(value, BITS_32), BYTE)))
        b2 == Put(b1, offset + 2, Number(BigAnd(BigShr(value, BITS_24), BYTE)))
        b3 == Put(b2, offset + 3, Number(BigAnd(BigShr(value, BITS_16), BYTE)))
        b4 == Put(b3, offset + 4, Number(BigAnd(BigShr(value, BITS_8), BYTE)))
    IN  Put(b4, offset + 5, Number(BigAnd(value, BYTE)))

\* read48BitsBE with a bug: the first byte is taken as the lowest
read48BitsLE(buffer, offset) ==
    UNION {BigShl(BigInt(At(buffer, offset + i)), 8 * i) : i \in 0..5}

read48BitsBE(buffer, offset) ==
    BigOr(BigOr(BigOr(BigOr(BigOr(
        BigShl(BigInt(At(buffer, offset)), BITS_40),
        BigShl(BigInt(At(buffer, offset + 1)), BITS_32)),
        BigShl(BigInt(At(buffer, offset + 2)), BITS_24)),
        BigShl(BigInt(At(buffer, offset + 3)), BITS_16)),
        BigShl(BigInt(At(buffer, offset + 4)), BITS_8)),
        BigInt(At(buffer, offset + 5)))

\* rotateLeft64 with a bug: the bits shifted out at the top are lost
rotateLeft64Shift(value, bits) == BigAnd(BigShl(value, bits), QWORD)

rotateLeft64(value, bits) ==
    BigAnd(BigOr(BigShl(value, bits), BigShr(value, ROTATION_64 - bits)), QWORD)

(***************************************************************************)
(* sip-hash.ts                                                             *)
(***************************************************************************)
\* sipRoundInlined with a bug: the sums are not reduced with & QWORD
sipRoundInlinedNoWrap(v) ==
    LET a0 == BigAdd(v[1], v[2])
        a2 == BigAdd(v[3], v[4])
        b1 == BigXor(rotateLeft64(v[2], 13), a0)
        b3 == BigXor(rotateLeft64(v[4], 16), a2)
        b0 == rotateLeft64(a0, 32)
        c2 == BigAdd(a2, b1)
        c0 == BigAdd(b0, b3)
        d1 == BigXor(rotateLeft64(b1, 17), c2)
        d3 == BigXor(rotateLeft64(b3, 21), c0)
        d2 == rotateLeft64(c2, 32)
    IN  <<c0, d1, d2, d3>>

sipRoundInlined(v) ==
    LET a0 == BigAnd(BigAdd(v[1], v[2]), QWORD)
        a2 == BigAnd(BigAdd(v[3], v[4]), QWORD)
        b1 == BigXor(rotateLeft64(v[2], 13), a0)
        b3 == BigXor(rotateLeft64(v[4], 16), a2)
        b0 == rotateLeft64(a0, 32)
        c2 == BigAnd(BigAdd(a2, b1), QWORD)
        c0 == BigAnd(BigAdd(b0, b3), QWORD)
        d1 == BigXor(rotateLeft64(b1, 17), c2)
        d3 == BigXor(rotateLeft64(b3, 21), c0)
        d2 == rotateLeft64(c2, 32)
    IN  <<c0, d1, d2, d3>>

RECURSIVE SipRounds(_, _)
\* n times [v0, v1, v2, v3] = sipRoundInlined(v0, v1, v2, v3)
SipRounds(v, n) ==
    IF n = 0 THEN v
    ELSE Strict(LAMBDA w : SipRounds(w, n - 1), sipRoundInlined(v))

\* v3 ^= m
XorV3(v, m) == [v EXCEPT ![4] = BigXor(@, m)]

\* v0 ^= m
XorV0(v, m) == [v EXCEPT ![1] = BigXor(@, m)]

\* the finalization with a bug: v2 is left as it is
XorV2Skipped(v) == v

\* v2 ^= FINALIZATION_XOR
XorV2(v) == [v EXCEPT ![3] = BigXor(@, FINALIZATION_XOR)]

\* v0 ^ v1 ^ v2 ^ v3
XorAll(v) == BigXor(BigXor(BigXor(v[1], v[2]), v[3]), v[4])

\* one message word: v3 ^= m, two rounds, v0 ^= m
Compress(v, m) == XorV0(SipRounds(XorV3(v, m), 2), m)

\* v2 ^= FINALIZATION_XOR, four rounds, v0 ^ v1 ^ v2 ^ v3
Finalize(v) == Strict(XorAll, SipRounds(XorV2(v), 4))

\* v0..v3 after the key is mixed in
InitState(key) ==
    <<BigXor(V0_INIT, key.k0), BigXor(V1_INIT, key.k1),
      BigXor(V2_INIT, key.k0), BigXor(V3_INIT, key.k1)>>

RECURSIVE FullBlocks(_, _, _, _)
\* the iterations first <= i < last of the loop over the full 8-byte blocks:
\* those below the middle, then the rest
FullBlocks(v, input, first, last) ==
    IF first >= last THEN v
    ELSE IF last - first = 1 THEN Compress(v, readUInt64LE(input, 8 * first))
    ELSE Strict(LAMBDA w : FullBlocks(w, input, (first + last) \div 2, last),
                FullBlocks(v, input, first, (first + last) \div 2))

RECURSIVE Remainder(_, _, _, _, _)
\* the loop that ORs the remaining bytes into lastBlock, from byte i on
Remainder(lastBlock, input, offset, i, remainder) ==
    IF i >= remainder THEN lastBlock
    ELSE Remainder(BigOr(lastBlock, BigShl(BigInt(At(input, offset + i)), i * 8)),
                   input, offset, i + 1, remainder)

\* the final block word of computeSipHash
LastBlock(input) ==
    LET inputLength == Len(input)
        fullBlocks  == inputLength \div 8
        remainder   == inputLength % 8
    IN  Remainder(BigShl(BigInt(inputLength), BITS_56), input, 8 * fullBlocks, 0, remainder)

computeSipHash(input, key) ==
    LET fullBlocks == Len(input) \div 8
        v          == FullBlocks(InitState(key), input, 0, fullBlocks)
    IN  Finalize(Compress(v, LastBlock(input)))

\* the final block word with a bug: input[8] and input[9] change places
LastBlock10Swapped(input) ==
    BigOr(BigOr(BigShl(BigInt(10), 56), BigShl(BigInt(At(input, 8)), 8)), BigInt(At(input, 9)))

\* the final block word of computeSipHashFixed10Bytes
LastBlock10(input) ==
    BigOr(BigOr(BigShl(BigInt(10), 56), BigShl(BigInt(At(input, 9)), 8)), BigInt(At(input, 8)))

computeSipHashFixed10Bytes(input, key) ==
    LET message == readUInt64LE(input, 0)
        v       == Compress(InitState(key), message)
    IN  Finalize(Compress(v, LastBlock10(input)))

(***************************************************************************)
(* uuid.ts                                                                 *)
(***************************************************************************)
\* getUUIDVersion with a bug: the nibble is not shifted down
getUUIDVersionNoShift(uuid) == NumAnd(At(uuid, 6), VERSION_MASK)

getUUIDVersion(uuid) == NumAnd(At(uuid, 6) \div (2 ^ VERSION_SHIFT), VERSION_MASK)

\* setUUIDVersion with a bug: the low nibble of byte 6 is not kept
setUUIDVersionClobber(uuid, version) == Put(uuid, 6, version * (2 ^ VERSION_SHIFT))

\* the bytes of uuid after setUUIDVersion(uuid, version)
setUUIDVersion(uuid, version) ==
    Put(uuid, 6, NumOr(NumAndNot(At(uuid, 6), VERSION_MASK * (2 ^ VERSION_SHIFT)),
                       version * (2 ^ VERSION_SHIFT)))

\* setVariantRFC4122 with a bug: the top two bits are not cleared first
setVariantRFC4122NoClear(uuid) == Put(uuid, 8, NumOr(At(uuid, 8), VARIANT_RFC4122))

\* the bytes of uuid after setVariantRFC4122(uuid)
setVariantRFC4122(uuid) ==
    Put(uuid, 8, NumOr(NumAnd(At(uuid, 8), VARIANT_MASK_CLEAR), VARIANT_RFC4122))

\* an element of a Buffer.allocUnsafe buffer that was never written
Unwritten == -1

allocUnsafe(n) == [i \in 1..n |-> Unwritten]

\* source.copy with a bug: the last byte of the range is not copied
BufferCopyShort(source, target, targetStart, sourceStart, sourceEnd) ==
    [j \in 1..Len(target) |->
        IF j - 1 >= targetStart /\ j - 1 < targetStart + (sourceEnd - 1 - sourceStart)
        THEN At(source, sourceStart + (j - 1 - targetStart))
        ELSE target[j]]

\* target after source.copy(target, targetStart, sourceStart, sourceEnd)
BufferCopy(source, target, targetStart, sourceStart, sourceEnd) ==
    [j \in 1..Len(target) |->
        IF j - 1 >= targetStart /\ j - 1 < targetStart + (sourceEnd - sourceStart)
        THEN At(source, sourceStart + (j - 1 - targetStart))
        ELSE target[j]]

\* buildSipHashInput with a bug: bytes 0-6 of the identifier, timestamp
\* bytes among them, are copied where bytes 9-15 belong
buildSipHashInputTimestamp(uuid) ==
    LET m0 == allocUnsafe(SIPHASH_MESSAGE_LENGTH)
        m1 == Put(m0, 0, NumAnd(At(uuid, 6), VERSION_MASK))
        m2 == Put(m1, 1, At(uuid, 7))
        m3 == Put(m2, 2, NumAnd(At(uuid, 8), VARIANT_MASK_CLEAR))
    IN  BufferCopy(uuid, m3, 3, 0, 7)

\* buildSipHashInput with a bug: the version nibble is left in message[0]
buildSipHashInputUnmasked(uuid) ==
    LET m0 == allocUnsafe(SIPHASH_MESSAGE_LENGTH)
        m1 == Put(m0, 0, At(uuid, 6))
        m2 == Put(m1, 1, At(uuid, 7))
        m3 == Put(m2, 2, NumAnd(At(uuid, 8), VARIANT_MASK_CLEAR))
    IN  BufferCopy(uuid, m3, 3, 9, 16)

buildSipHashInput(uuid) ==
    LET m0 == allocUnsafe(SIPHASH_MESSAGE_LENGTH)
        m1 == Put(m0, 0, NumAnd(At(uuid, 6), VERSION_MASK))
        m2 == Put(m1, 1, At(uuid, 7))
        m3 == Put(m2, 2, NumAnd(At(uuid, 8), VARIANT_MASK_CLEAR))
    IN  BufferCopy(uuid, m3, 3, 9, 16)

(***************************************************************************)
(* core.ts.  A function that takes Buffers takes the heap and references   *)
(* into it, and returns the heap it leaves, the reference it returns       *)
(* (NoRef when it throws) and the message of the Error it throws (NoError  *)
(* when it returns).                                                       *)
(***************************************************************************)
NoRef == 0

NoError == ""

Undefined == "undefined"

\* x ?? d
Nullish(x, d) == IF x = Undefined THEN d ELSE x

\* the options argument: undefined, or an object whose properties may be absent
OptionsValues ==
    [given : {FALSE}, skipValidation : {Undefined}, useBatchProcessing : {Undefined}]
    \cup [given : {TRUE}, skipValidation : {Undefined, "true", "false"},
                          useBatchProcessing : {Undefined, "true", "false"}]

\* options?.skipValidation
OptSkipValidation(options) == IF options.given THEN options.skipValidation ELSE Undefined

\* options?.useBatchProcessing
OptUseBatchProcessing(options) ==
    IF options.given THEN options.useBatchProcessing ELSE Undefined

\* a throw with a bug: every site raises the message of the first
ThrowSameMessage(h, message) ==
    [heap |-> h, ret |-> NoRef, error |-> "Input UUID must be version 7"]

Throw(h, message) == [heap |-> h, ret |-> NoRef, error |-> message]

Return(h, ref) == [heap |-> h, ret |-> ref, error |-> NoError]

\* the result with a bug: the input Buffer itself, not a copy of it
BufferFromShared(h, buffer) == [heap |-> h, ref |-> buffer]

\* Buffer.from(buffer): a new Buffer with a copy of the bytes
BufferFrom(h, buffer) == [heap |-> Append(h, h[buffer]), ref |-> Len(h) + 1]

\* encodeV4Facade with a bug: the mask is written in place of the timestamp
encodeV4FacadeMaskOnly(h, uuidV7, key) ==
    IF getUUIDVersion(h[uuidV7]) # V7
    THEN Throw(h, "Input UUID must be version 7")
    ELSE LET sipInput    == buildSipHashInput(h[uuidV7])
             hashResult  == computeSipHashFixed10Bytes(sipInput, key)
             mask48      == BigAnd(hashResult, MASK_48_BITS)
             result      == BufferFrom(h, uuidV7)
             written     == write48BitsBE(result.heap[result.ref], mask48, 0)
             versioned   == setUUIDVersion(written, V4)
             variant     == setVariantRFC4122(versioned)
         IN  Return([result.heap EXCEPT ![result.ref] = variant], result.ref)

encodeV4Facade(h, uuidV7, key) ==
    IF getUUIDVersion(h[uuidV7]) # V7
    THEN Throw(h, "Input UUID must be version 7")
    ELSE LET sipInput    == buildSipHashInput(h[uuidV7])
             hashResult  == computeSipHashFixed10Bytes(sipInput, key)
             mask48      == BigAnd(hashResult, MASK_48_BITS)
             timestamp48 == read48BitsBE(h[uuidV7], 0)
             encryptedTimestamp == BigXor(timestamp48, mask48)
             result      == BufferFrom(h, uuidV7)
             written     == write48BitsBE(result.heap[result.ref], encryptedTimestamp, 0)
             versioned   == setUUIDVersion(written, V4)
             variant     == setVariantRFC4122(versioned)
         IN  Return([result.heap EXCEPT ![result.ref] = variant], result.ref)

\* decodeV4Facade with a bug: the timestamp is written back as it was read
decodeV4FacadeNoUnmask(h, uuidV4Facade, key) ==
    IF getUUIDVersion(h[uuidV4Facade]) # V4
    THEN Throw(h, "Input UUID must be version 4")
    ELSE LET encryptedTimestamp == read48BitsBE(h[uuidV4Facade], 0)
             result      == BufferFrom(h, uuidV4Facade)
             written     == write48BitsBE(result.heap[result.ref], encryptedTimestamp, 0)
             versioned   == setUUIDVersion(written, V7)
             variant     == setVariantRFC4122(versioned)
         IN  Return([result.heap EXCEPT ![result.ref] = variant], result.ref)

decodeV4Facade(h, uuidV4Facade, key) ==
    IF getUUIDVersion(h[uuidV4Facade]) # V4
    THEN Throw(h, "Input UUID must be version 4")
    ELSE LET sipInput    == buildSipHashInput(h[uuidV4Facade])
             hashResult  == computeSipHashFixed10Bytes(sipInput, key)
             mask48      == BigAnd(hashResult, MASK_48_BITS)
             encryptedTimestamp == read48BitsBE(h[uuidV4Facade], 0)
             originalTimestamp == BigXor(encryptedTimestamp, mask48)
             result      == BufferFrom(h, uuidV4Facade)
             written     == write48BitsBE(result.heap[result.ref], originalTimestamp, 0)
             versioned   == setUUIDVersion(written, V7)
             variant     == setVariantRFC4122(versioned)
         IN  Return([result.heap EXCEPT ![result.ref] = variant], result.ref)

\* encodeV4FacadeWithOptions with a bug: with validation skipped the
\* transform is skipped too, the result being a copy of the input
encodeV4FacadeWithOptionsSkipAll(h, uuidV7, key, options) ==
    IF Nullish(OptSkipValidation(options), "false") = "true"
    THEN Return(BufferFrom(h, uuidV7).heap, BufferFrom(h, uuidV7).ref)
    ELSE encodeV4Facade(h, uuidV7, key)

encodeV4FacadeWithOptions(h, uuidV7, key, options) ==
    LET skipValidation == Nullish(OptSkipValidation(options), "false")
    IN  IF skipValidation # "true" /\ getUUIDVersion(h[uuidV7]) # V7
        THEN Throw(h, "Input UUID must be version 7")
        ELSE LET sipInput    == buildSipHashInput(h[uuidV7])
                 hashResult  == computeSipHashFixed10Bytes(sipInput, key)
                 mask48      == BigAnd(hashResult, MASK_48_BITS)
                 timestamp48 == read48BitsBE(h[uuidV7], 0)
                 encryptedTimestamp == BigXor(timestamp48, mask48)
                 result      == BufferFrom(h, uuidV7)
                 written     == write48BitsBE(result.heap[result.ref], encryptedTimestamp, 0)
                 versioned   == setUUIDVersion(written, V4)
                 variant     == setVariantRFC4122(versioned)
             IN  Return([result.heap EXCEPT ![result.ref] = variant], result.ref)

\* decodeV4FacadeWithOptions with a bug: the options are not looked at
decodeV4FacadeWithOptionsIgnored(h, uuidV4Facade, key, options) ==
    decodeV4Facade(h, uuidV4Facade, key)

decodeV4FacadeWithOptions(h, uuidV4Facade, key, options) ==
    LET skipValidation == Nullish(OptSkipValidation(options), "false")
    IN  IF skipValidation # "true" /\ getUUIDVersion(h[uuidV4Facade]) # V4
        THEN Throw(h, "Input UUID must be version 4")
        ELSE LET sipInput    == buildSipHashInput(h[uuidV4Facade])
                 hashResult  == computeSipHashFixed10Bytes(sipInput, key)
                 mask48      == BigAnd(hashResult, MASK_48_BITS)
                 encryptedTimestamp == read48BitsBE(h[uuidV4Facade], 0)
                 originalTimestamp == BigXor(encryptedTimestamp, mask48)
                 result      == BufferFrom(h, uuidV4Facade)
                 written     == write48BitsBE(result.heap[result.ref], originalTimestamp, 0)
                 versioned   == setUUIDVersion(written, V7)
                 variant     == setVariantRFC4122(versioned)
             IN  Return([result.heap EXCEPT ![result.ref] = variant], result.ref)

RECURSIVE EncodeEachReversed(_, _, _, _, _)
\* the loop of batchEncodeV4Facade with a bug: each result is put in front of
\* the earlier ones
EncodeEachReversed(h, uuids, key, i, results) ==
    IF i > Len(uuids) THEN [heap |-> h, ret |-> results, error |-> NoError]
    ELSE Strict(LAMBDA r : IF r.error # NoError
                           THEN [heap |-> r.heap, ret |-> <<>>, error |-> r.error]
                           ELSE EncodeEachReversed(r.heap, uuids, key, i + 1,
                                                   <<r.ret>> \o results),
                encodeV4Facade(h, uuids[i], key))

RECURSIVE EncodeEach(_, _, _, _, _)
\* the loop of batchEncodeV4Facade from index i on (i counted from 1), results
\* holding what the earlier iterations stored; a throw leaves the loop
EncodeEach(h, uuids, key, i, results) ==
    IF i > Len(uuids) THEN [heap |-> h, ret |-> results, error |-> NoError]
    ELSE Strict(LAMBDA r : IF r.error # NoError
                           THEN [heap |-> r.heap, ret |-> <<>>, error |-> r.error]
                           ELSE EncodeEach(r.heap, uuids, key, i + 1, Append(results, r.ret)),
                encodeV4Facade(h, uuids[i], key))

batchEncodeV4Facade(h, uuids, key) == EncodeEach(h, uuids, key, 1, <<>>)

RECURSIVE DecodeEachContinue(_, _, _, _, _)
\* the loop of batchDecodeV4Facade with a bug: an item that is rejected is
\* left out and the loop goes on
DecodeEachContinue(h, uuids, key, i, results) ==
    IF i > Len(uuids) THEN [heap |-> h, ret |-> results, error |-> NoError]
    ELSE Strict(LAMBDA r : IF r.error # NoError
                           THEN DecodeEachContinue(r.heap, uuids, key, i + 1, results)
                           ELSE DecodeEachContinue(r.heap, uuids, key, i + 1,
                                                   Append(results, r.ret)),
                decodeV4Facade(h, uuids[i], key))

RECURSIVE DecodeEach(_, _, _, _, _)
\* the loop of batchDecodeV4Facade from index i on
DecodeEach(h, uuids, key, i, results) ==
    IF i > Len(uuids) THEN [heap |-> h, ret |-> results, error |-> NoError]
    ELSE Strict(LAMBDA r : IF r.error # NoError
                           THEN [heap |-> r.heap, ret |-> <<>>, error |-> r.error]
                           ELSE DecodeEach(r.heap, uuids, key, i + 1, Append(results, r.ret)),
                decodeV4Facade(h, uuids[i], key))

batchDecodeV4Facade(h, uuids, key) == DecodeEach(h, uuids, key, 1, <<>>)

RECURSIVE EncodeMap(_, _, _, _, _, _)
\* uuids.map((uuid) => encodeV4FacadeWithOptions(uuid, key, options)), from index i on
EncodeMap(h, uuids, key, options, i, results) ==
    IF i > Len(uuids) THEN [heap |-> h, ret |-> results, error |-> NoError]
    ELSE Strict(LAMBDA r : IF r.error # NoError
                           THEN [heap |-> r.heap, ret |-> <<>>, error |-> r.error]
                           ELSE EncodeMap(r.heap, uuids, key, options, i + 1,
                                          Append(results, r.ret)),
                encodeV4FacadeWithOptions(h, uuids[i], key, options))

batchEncodeV4FacadeWithOptions(h, uuids, key, options) ==
    LET useBatchProcessing == Nullish(OptUseBatchProcessing(options), "true")
    IN  IF useBatchProcessing = "true"
        THEN batchEncodeV4Facade(h, uuids, key)
        ELSE EncodeMap(h, uuids, key, options, 1, <<>>)

RECURSIVE DecodeMap(_, _, _, _, _, _)
\* uuids.map((uuid) => decodeV4FacadeWithOptions(uuid, key, options)), from index i on
DecodeMap(h, uuids, key, options, i, results) ==
    IF i > Len(uuids) THEN [heap |-> h, ret |-> results, error |-> NoError]
    ELSE Strict(LAMBDA r : IF r.error # NoError
                           THEN [heap |-> r.heap, ret |-> <<>>, error |-> r.error]
                           ELSE DecodeMap(r.heap, uuids, key, options, i + 1,
                                          Append(results, r.ret)),
                decodeV4FacadeWithOptions(h, uuids[i], key, options))

batchDecodeV4FacadeWithOptions(h, uuids, key, options) ==
    LET useBatchProcessing == Nullish(OptUseBatchProcessing(options), "true")
    IN  IF useBatchProcessing = "true"
        THEN batchDecodeV4Facade(h, uuids, key)
        ELSE DecodeMap(h, uuids, key, options, 1, <<>>)

(***************************************************************************)
(* The inputs: identifiers and keys a caller may hold.                     *)
(***************************************************************************)
NumBodies == 2

NumKeys == 2

MaxBatch == 2

MaxCalls == 2

\* the timestamp and random bits of the sample identifiers; the first is
\* 018f4e7c-3c4a-7000-8000-123456789abc
SampleBody(b) ==
    CASE b = 1 -> <<\H01, \H8f, \H4e, \H7c, \H3c, \H4a, \H70, \H00,
                    \H80, \H00, \H12, \H34, \H56, \H78, \H9a, \Hbc>>
      [] b = 2 -> [i \in 1..UUID_BYTE_LENGTH |-> \Hff]
      [] OTHER -> [i \in 1..UUID_BYTE_LENGTH |-> (b * 89 + i * (2 * b + 29)) % 256]

\* the sample identifier with the given version nibble and variant bits
SampleId(version, variant, b) ==
    [i \in 1..UUID_BYTE_LENGTH |->
        IF i = 7 THEN version * 16 + (SampleBody(b)[7] % 16)
        ELSE IF i = 9 THEN variant * 64 + (SampleBody(b)[9] % 64)
        ELSE SampleBody(b)[i]]

SampleKey(k) ==
    CASE k = 1 -> [k0 |-> Hex(<<\H01, \H23, \H45, \H67, \H89, \Hab, \Hcd, \Hef>>),
                   k1 |-> Hex(<<\Hfe, \Hdc, \Hba, \H98, \H76, \H54, \H32, \H10>>)]
      [] k = 2 -> [k0 |-> Hex(<<\H07, \H06, \H05, \H04, \H03, \H02, \H01, \H00>>),
                   k1 |-> Hex(<<\H0f, \H0e, \H0d, \H0c, \H0b, \H0a, \H09, \H08>>)]
      [] OTHER -> [k0 |-> BigInt(k * 1000003), k1 |-> QWORD]

Versions == 0..15

Variants == 0..3

\* the lists of at most MaxBatch of the references refs
Lists(refs) == UNION {[1..n -> refs] : n \in 0..MaxBatch}

(***************************************************************************)
(* The state: the Buffers, the keys the caller holds, the calls made so    *)
(* far, each with the heap before and after it, and the last SipHash       *)
(* computation.                                                            *)
(***************************************************************************)
VARIABLES heap, keys, calls, sip

vars == <<heap, keys, calls, sip>>

NoOptions == [given |-> FALSE, skipValidation |-> Undefined, useBatchProcessing |-> Undefined]

\* a digest that was not computed
NoDigest == {-1}

NoSip == [input |-> <<>>, key |-> 0, lastBlock |-> NoDigest, general |-> NoDigest,
          fixed |-> NoDigest, ran |-> {}]

Init ==
    /\ \E version \in Versions, variant \in Variants, b \in 1..NumBodies :
            heap = <<SampleId(version, variant, b)>>
    /\ keys = [k \in 1..NumKeys |-> SampleKey(k)]
    /\ calls = <<>>
    /\ sip = NoSip

\* the record of a call fn(args, keys[k], options) that left r and returned
\* the references results
CallRecord(fn, args, k, options, r, results) ==
    [fn |-> fn, args |-> args, key |-> k, options |-> options,
     before |-> heap, error |-> r.error, results |-> results, after |-> r.heap]

\* the functions that take one identifier
SingleFns == {"encodeV4Facade", "decodeV4Facade",
              "encodeV4FacadeWithOptions", "decodeV4FacadeWithOptions"}

\* the caller has made a call that returned and has steps left
CanStep ==
    IF calls = <<>> THEN FALSE ELSE Len(calls) < MaxCalls /\ calls[1].error = NoError

\* the caller makes its first call with its first key; after a call on one
\* identifier that returned it may make another, with any of its keys
CanCall(k) ==
    IF calls = <<>> THEN k = 1 ELSE CanStep /\ calls[1].fn \in SingleFns

\* what a call of one of the four functions on one identifier returned
Single(r) == IF r.error = NoError THEN <<r.ret>> ELSE <<>>

Encode(arg, k) ==
    /\ CanCall(k)
    /\ \E r \in {encodeV4Facade(heap, arg, keys[k])} :
           /\ heap' = r.heap
           /\ calls' = Append(calls, CallRecord("encodeV4Facade", <<arg>>, k, NoOptions,
                                                r, Single(r)))
    /\ UNCHANGED <<keys, sip>>

Decode(arg, k) ==
    /\ CanCall(k)
    /\ \E r \in {decodeV4Facade(heap, arg, keys[k])} :
           /\ heap' = r.heap
           /\ calls' = Append(calls, CallRecord("decodeV4Facade", <<arg>>, k, NoOptions,
                                                r, Single(r)))
    /\ UNCHANGED <<keys, sip>>

EncodeWithOptions(arg, k, options) ==
    /\ CanCall(k)
    /\ \E r \in {encodeV4FacadeWithOptions(heap, arg, keys[k], options)} :
           /\ heap' = r.heap
           /\ calls' = Append(calls, CallRecord("encodeV4FacadeWithOptions", <<arg>>, k,
                                                options, r, Single(r)))
    /\ UNCHANGED <<keys, sip>>

DecodeWithOptions(arg, k, options) ==
    /\ CanCall(k)
    /\ \E r \in {decodeV4FacadeWithOptions(heap, arg, keys[k], options)} :
           /\ heap' = r.heap
           /\ calls' = Append(calls, CallRecord("decodeV4FacadeWithOptions", <<arg>>, k,
                                                options, r, Single(r)))
    /\ UNCHANGED <<keys, sip>>

\* a batch call is the caller's only call
CanBatch == calls = <<>>

BatchEncode(uuids) ==
    /\ CanBatch
    /\ \E r \in {batchEncodeV4Facade(heap, uuids, keys[1])} :
           /\ heap' = r.heap
           /\ calls' = Append(calls, CallRecord("batchEncodeV4Facade", uuids, 1, NoOptions,
                                                r, r.ret))
    /\ UNCHANGED <<keys, sip>>

BatchDecode(uuids) ==
    /\ CanBatch
    /\ \E r \in {batchDecodeV4Facade(heap, uuids, keys[1])} :
           /\ heap' = r.heap
           /\ calls' = Append(calls, CallRecord("batchDecodeV4Facade", uuids, 1, NoOptions,
                                                r, r.ret))
    /\ UNCHANGED <<keys, sip>>

BatchEncodeWithOptions(uuids, options) ==
    /\ CanBatch
    /\ \E r \in {batchEncodeV4FacadeWithOptions(heap, uuids, keys[1], options)} :
           /\ heap' = r.heap
           /\ calls' = Append(calls, CallRecord("batchEncodeV4FacadeWithOptions", uuids, 1,
                                                options, r, r.ret))
    /\ UNCHANGED <<keys, sip>>

BatchDecodeWithOptions(uuids, options) ==
    /\ CanBatch
    /\ \E r \in {batchDecodeV4FacadeWithOptions(heap, uuids, keys[1], options)} :
           /\ heap' = r.heap
           /\ calls' = Append(calls, CallRecord("batchDecodeV4FacadeWithOptions", uuids, 1,
                                                options, r, r.ret))
    /\ UNCHANGED <<keys, sip>>

\* the references the calls returned
Returned == UNION {{calls[c].results[i] : i \in DOMAIN calls[c].results} : c \in DOMAIN calls}

\* the offsets the caller writes at: in the timestamp, at the version, at the
\* variant, and the last byte
WriteOffsets == {0, 6, 8, UUID_BYTE_LENGTH - 1}

\* the caller writes to a Buffer a call returned to it: result[i] = ~result[i]
Write(ref, i) ==
    /\ CanStep
    /\ ref \in Returned
    /\ heap' = [heap EXCEPT ![ref] = Put(@, i, 255 - At(@, i))]
    /\ calls' = Append(calls, [fn |-> "write", args |-> <<ref>>, key |-> 0,
                               options |-> NoOptions, before |-> heap, error |-> NoError,
                               results |-> <<>>, after |-> heap'])
    /\ UNCHANGED <<keys, sip>>

\* the options a call on one identifier is given: useBatchProcessing is not read
SingleOptions == {options \in OptionsValues : options.useBatchProcessing = Undefined}

Next ==
    \/ \E arg \in DOMAIN heap, k \in DOMAIN keys : Encode(arg, k)
    \/ \E arg \in DOMAIN heap, k \in DOMAIN keys : Decode(arg, k)
    \/ \E arg \in DOMAIN heap, k \in DOMAIN keys, options \in SingleOptions :
           EncodeWithOptions(arg, k, options)
    \/ \E arg \in DOMAIN heap, k \in DOMAIN keys, options \in SingleOptions :
           DecodeWithOptions(arg, k, options)
    \/ \E uuids \in Lists(DOMAIN heap) : BatchEncode(uuids)
    \/ \E uuids \in Lists(DOMAIN heap) : BatchDecode(uuids)
    \/ \E uuids \in Lists(DOMAIN heap), options \in OptionsValues :
           BatchEncodeWithOptions(uuids, options)
    \/ \E uuids \in Lists(DOMAIN heap), options \in OptionsValues :
           BatchDecodeWithOptions(uuids, options)
    \/ \E ref \in DOMAIN heap, i \in WriteOffsets : Write(ref, i)

Spec == Init /\ [][Next]_vars

(***************************************************************************)
(* The batch functions on their own: a caller holds two identifiers, makes *)
(* one batch call on a list of them, and may give what batchEncodeV4Facade *)
(* returned to batchDecodeV4Facade.                                        *)
(***************************************************************************)
\* the version nibbles of the caller's second identifier: the two the
\* functions ask for, and another
OtherVersions == {V4, V7, 12}

\* its variant bits: those of another variant, and binary 10
OtherVariants == {0, 2}

BatchInit ==
    /\ \E version \in Versions, other \in OtherVersions, variant \in OtherVariants :
            heap = <<SampleId(version, 2, 1), SampleId(other, variant, 2)>>
    /\ keys = [k \in 1..NumKeys |-> SampleKey(k)]
    /\ calls = <<>>
    /\ sip = NoSip

\* the caller gives batchDecodeV4Facade the list batchEncodeV4Facade returned
BatchDecodeReturned ==
    /\ Len(calls) = 1
    /\ calls[1].fn = "batchEncodeV4Facade"
    /\ calls[1].error = NoError
    /\ \E r \in {batchDecodeV4Facade(heap, calls[1].results, keys[1])} :
           /\ heap' = r.heap
           /\ calls' = Append(calls, CallRecord("batchDecodeV4Facade", calls[1].results, 1,
                                                NoOptions, r, r.ret))
    /\ UNCHANGED <<keys, sip>>

BatchNext ==
    \/ \E uuids \in Lists(DOMAIN heap) : BatchEncode(uuids)
    \/ \E uuids \in Lists(DOMAIN heap) : BatchDecode(uuids)
    \/ \E uuids \in Lists(DOMAIN heap), options \in OptionsValues :
           BatchEncodeWithOptions(uuids, options)
    \/ \E uuids \in Lists(DOMAIN heap), options \in OptionsValues :
           BatchDecodeWithOptions(uuids, options)
    \/ BatchDecodeReturned

BatchSpec == BatchInit /\ [][BatchNext]_vars

(***************************************************************************)
(* The mask input on its own: a caller builds the SipHash message of an    *)
(* identifier it holds or of one encodeV4Facade or decodeV4Facade returned *)
(* to it.                                                                  *)
(***************************************************************************)
\* the caller calls buildSipHashInput on an identifier (a UUID128), as its
\* first call or after a call that returned; the message is a new Buffer
BuildSipHashInput(ref) ==
    /\ calls = <<>> \/ CanStep
    /\ Len(heap[ref]) = UUID_BYTE_LENGTH
    /\ heap' = Append(heap, buildSipHashInput(heap[ref]))
    /\ calls' = Append(calls, [fn |-> "buildSipHashInput", args |-> <<ref>>, key |-> 0,
                               options |-> NoOptions, before |-> heap, error |-> NoError,
                               results |-> <<Len(heap) + 1>>, after |-> heap'])
    /\ UNCHANGED <<keys, sip>>

MessageNext ==
    \/ \E arg \in DOMAIN heap, k \in DOMAIN keys : Encode(arg, k)
    \/ \E arg \in DOMAIN heap, k \in DOMAIN keys : Decode(arg, k)
    \/ \E ref \in DOMAIN heap : BuildSipHashInput(ref)

MessageSpec == Init /\ [][MessageNext]_vars

(***************************************************************************)
(* Two identifiers.  A caller holds an identifier and a second one that is *)
(* the first but for one field, and encodes or decodes them.               *)
(***************************************************************************)
\* the fields in which the second identifier differs from the first
Fields == {"none", "timestamp top", "timestamp bottom", "timestamp", "version",
           "random a", "random b", "variant", "random c", "random end"}

\* uuid with a bit, or every bit, of the field changed; for the version the
\* nibble is raised by one
Differing(uuid, field) ==
    [i \in 1..UUID_BYTE_LENGTH |->
        CASE field = "timestamp top" /\ i = 1 -> (uuid[i] + 128) % 256
          [] field = "timestamp bottom" /\ i = 6 -> uuid[i] + 1 - 2 * (uuid[i] % 2)
          [] field = "timestamp" /\ i <= 6 -> 255 - uuid[i]
          [] field = "version" /\ i = 7 -> (uuid[i] + 16) % 256
          [] field = "random a" /\ i = 7 -> uuid[i] + 1 - 2 * (uuid[i] % 2)
          [] field = "random b" /\ i = 8 -> 255 - uuid[i]
          [] field = "variant" /\ i = 9 -> (uuid[i] + 128) % 256
          [] field = "random c" /\ i = 9 -> uuid[i] + 1 - 2 * (uuid[i] % 2)
          [] field = "random end" /\ i = 16 -> uuid[i] + 1 - 2 * (uuid[i] % 2)
          [] OTHER -> uuid[i]]

PairInit ==
    /\ \E version \in {V4, V7}, variant \in OtherVariants, b \in 1..NumBodies, field \in Fields :
           heap = <<SampleId(version, variant, b),
                    Differing(SampleId(version, variant, b), field)>>
    /\ keys = [k \in 1..NumKeys |-> SampleKey(k)]
    /\ calls = <<>>
    /\ sip = NoSip

\* the caller encodes or decodes the identifiers it holds at first
PairNext ==
    \/ \E arg \in 1..2, k \in DOMAIN keys : Encode(arg, k)
    \/ \E arg \in 1..2, k \in DOMAIN keys : Decode(arg, k)

PairSpec == PairInit /\ [][PairNext]_vars

\* the caller calls the functions that take options, on the identifier it
\* holds at first or on one returned
OptionsNext ==
    \/ \E arg \in DOMAIN heap, k \in DOMAIN keys, options \in SingleOptions :
           EncodeWithOptions(arg, k, options)
    \/ \E arg \in DOMAIN heap, k \in DOMAIN keys, options \in SingleOptions :
           DecodeWithOptions(arg, k, options)

OptionsSpec == Init /\ [][OptionsNext]_vars

(***************************************************************************)
(* SipHash on its own: a caller computes the digest of one message with    *)
(* computeSipHash and may then compute it again with                       *)
(* computeSipHashFixed10Bytes when the message has 10 bytes.               *)
(***************************************************************************)
MaxShortLen == 12

NumLong == 3

\* message lengths: the short ones, and those around 256 and 512
SipLengths ==
    (0..MaxShortLen) \cup {255 + j : j \in 0..(NumLong - 1)} \cup {512 + (j % 2) : j \in 1..NumLong}

\* the message of len bytes start, start + step, start + 2 * step, ...
Message(len, start, step) == [i \in 1..len |-> (start + (i - 1) * step) % 256]

\* where the messages start and how they step; 0 and 1 give 0, 1, 2, ...
SipStarts == {0, 10, 255}

SipSteps == {1, 10, 255}

SipInit ==
    /\ heap = <<>>
    /\ keys = [k \in 1..NumKeys |-> SampleKey(k)]
    /\ calls = <<>>
    /\ sip = NoSip

ComputeSipHash(input, k) ==
    /\ sip.ran = {}
    /\ sip' = [input |-> input, key |-> k, lastBlock |-> LastBlock(input),
               general |-> computeSipHash(input, keys[k]), fixed |-> NoDigest,
               ran |-> {"computeSipHash"}]
    /\ UNCHANGED <<heap, keys, calls>>

ComputeSipHashFixed10Bytes ==
    /\ sip.ran = {"computeSipHash"}
    /\ Len(sip.input) = SIPHASH_MESSAGE_LENGTH
    /\ sip' = [sip EXCEPT !.fixed = computeSipHashFixed10Bytes(sip.input, keys[sip.key]),
                          !.ran = @ \cup {"computeSipHashFixed10Bytes"}]
    /\ UNCHANGED <<heap, keys, calls>>

SipNext ==
    \/ \E len \in SipLengths, start \in SipStarts, step \in SipSteps, k \in DOMAIN keys :
           ComputeSipHash(Message(len, start, step), k)
    \/ ComputeSipHashFixed10Bytes

SipSpec == SipInit /\ [][SipNext]_vars

(***************************************************************************)
(* SipHash statement by statement.  sip holds the function that runs, its  *)
(* message and key, the state words v0..v3, the position pc, the index of  *)
(* the message word in hand, the rounds left of the unrolled group, and    *)
(* the operands and results of the four additions of the last round.       *)
(***************************************************************************)
\* the four additions of sipRoundInlined(v): the operands and the value
\* assigned
RoundSums(v) ==
    LET a0 == BigAnd(BigAdd(v[1], v[2]), QWORD)
        a2 == BigAnd(BigAdd(v[3], v[4]), QWORD)
        b1 == BigXor(rotateLeft64(v[2], 13), a0)
        b3 == BigXor(rotateLeft64(v[4], 16), a2)
        b0 == rotateLeft64(a0, 32)
        c2 == BigAnd(BigAdd(a2, b1), QWORD)
        c0 == BigAnd(BigAdd(b0, b3), QWORD)
    IN  {[x |-> v[1], y |-> v[2], sum |-> a0], [x |-> v[3], y |-> v[4], sum |-> a2],
         [x |-> a2, y |-> b1, sum |-> c2], [x |-> b0, y |-> b3, sum |-> c0]}

\* the message lengths of the runs: none, less than a word, a word, the 10 of
\* the fast path, two words and more, and those around 256
RoundLengths == {0, 7, 8, 10, 17, 255, 256}

\* the number of message words before the final one
NumBlocks(input) == Len(input) \div 8

\* the message word of index i: a full block, or the final word
Word(fn, input, i) ==
    IF i < NumBlocks(input) THEN readUInt64LE(input, 8 * i)
    ELSE IF fn = "computeSipHashFixed10Bytes" THEN LastBlock10(input)
    ELSE LastBlock(input)

RoundInit ==
    /\ heap = <<>>
    /\ keys = [k \in 1..NumKeys |-> SampleKey(k)]
    /\ calls = <<>>
    /\ sip = [pc |-> "idle"]

\* the function is called and initialises v0..v3
SipStart(fn, input, k) ==
    /\ sip.pc = "idle"
    /\ fn = "computeSipHashFixed10Bytes" => Len(input) = SIPHASH_MESSAGE_LENGTH
    /\ sip' = [pc |-> "xor3", fn |-> fn, input |-> input, key |-> k, v |-> InitState(keys[k]),
               i |-> 0, rounds |-> 0, sums |-> {}, digest |-> NoDigest]
    /\ UNCHANGED <<heap, keys, calls>>

\* v3 ^= message, or v3 ^= lastBlock
SipXorV3 ==
    /\ sip.pc = "xor3"
    /\ sip' = [sip EXCEPT !.v = XorV3(sip.v, Word(sip.fn, sip.input, sip.i)),
                          !.pc = "round", !.rounds = 2]
    /\ UNCHANGED <<heap, keys, calls>>

\* [v0, v1, v2, v3] = sipRoundInlined(v0, v1, v2, v3)
SipRound ==
    /\ sip.pc \in {"round", "final"}
    /\ sip' = [sip EXCEPT !.v = sipRoundInlined(sip.v),
                          !.sums = RoundSums(sip.v),
                          !.rounds = sip.rounds - 1,
                          !.pc = IF sip.rounds > 1 THEN sip.pc
                                 ELSE IF sip.pc = "round" THEN "xor0" ELSE "return"]
    /\ UNCHANGED <<heap, keys, calls>>

\* v0 ^= message, or v0 ^= lastBlock
SipXorV0 ==
    /\ sip.pc = "xor0"
    /\ sip' = [sip EXCEPT !.v = XorV0(sip.v, Word(sip.fn, sip.input, sip.i)),
                          !.i = sip.i + 1,
                          !.pc = IF sip.i < NumBlocks(sip.input) THEN "xor3" ELSE "xor2"]
    /\ UNCHANGED <<heap, keys, calls>>

\* v2 ^= FINALIZATION_XOR
SipXorV2 ==
    /\ sip.pc = "xor2"
    /\ sip' = [sip EXCEPT !.v = XorV2(sip.v), !.pc = "final", !.rounds = 4]
    /\ UNCHANGED <<heap, keys, calls>>

\* return v0 ^ v1 ^ v2 ^ v3
SipReturn ==
    /\ sip.pc = "return"
    /\ sip' = [sip EXCEPT !.digest = XorAll(sip.v), !.pc = "done"]
    /\ UNCHANGED <<heap, keys, calls>>

RoundNext ==
    \/ \E fn \in {"computeSipHash", "computeSipHashFixed10Bytes"}, len \in RoundLengths,
          start \in SipStarts, step \in SipSteps, k \in DOMAIN keys :
           SipStart(fn, Message(len, start, step), k)
    \/ SipXorV3
    \/ SipRound
    \/ SipXorV0
    \/ SipXorV2
    \/ SipReturn

RoundSpec == RoundInit /\ [][RoundNext]_vars

(***************************************************************************)
(* byte-operations.ts, rotateLeft64 on its own: a caller rotates a word    *)
(* and may rotate the result again.                                        *)
(***************************************************************************)
\* the words rotated: those of the tests, 0 and 2^64 - 1
RotateValues ==
    {{}, {0}, {63}, QWORD,
     Hex(<<\H01, \H23, \H45, \H67, \H89, \Hab, \Hcd, \Hef>>),
     Hex(<<\Haa, \Hbb, \Hcc, \Hdd, \Hee, \Hff, \H11, \H22>>)}

\* the caller rotates a word it holds, then the word returned, by a number
\* of bits that keeps the total within 64
RotateLeft64(value, bits) ==
    /\ Len(calls) < MaxCalls
    /\ IF calls = <<>> THEN value \in RotateValues
       ELSE value = calls[1].results[1] /\ calls[1].args[2] + bits <= ROTATION_64
    /\ calls' = Append(calls, [fn |-> "rotateLeft64", args |-> <<value, bits>>, key |-> 0,
                               options |-> NoOptions, before |-> heap, error |-> NoError,
                               results |-> <<rotateLeft64(value, bits)>>, after |-> heap])
    /\ UNCHANGED <<heap, keys, sip>>

RotateNext ==
    \E value \in RotateValues \cup {calls[c].results[1] : c \in DOMAIN calls},
       bits \in 0..ROTATION_64 : RotateLeft64(value, bits)

RotateSpec == SipInit /\ [][RotateNext]_vars

(***************************************************************************)
(* key-management.ts.  A key is a frozen object of two bigints; a caller   *)
(* holds keys and Buffers and converts between them.                       *)
(***************************************************************************)
\* buffer.readBigUInt64LE(offset)
readBigUInt64LE(buffer, offset) ==
    UNION {BigShl(BigInt(At(buffer, offset + i)), 8 * i) : i \in 0..7}

\* buffer.writeBigUInt64LE with a bug: the bytes are stored most significant
\* first
writeBigUInt64BE(buffer, value, offset) ==
    [j \in 1..Len(buffer) |->
        IF j - 1 >= offset /\ j - 1 < offset + 8
        THEN Number(BigAnd(BigShr(value, 8 * (7 - (j - 1 - offset))), BYTE))
        ELSE buffer[j]]

\* buffer after buffer.writeBigUInt64LE(value, offset), for 0 <= value < 2^64
writeBigUInt64LE(buffer, value, offset) ==
    [j \in 1..Len(buffer) |->
        IF j - 1 >= offset /\ j - 1 < offset + 8
        THEN Number(BigAnd(BigShr(value, 8 * (j - 1 - offset)), BYTE))
        ELSE buffer[j]]

\* no key: what createKeyFromBuffer leaves when it throws
NoKey == [k0 |-> NoDigest, k1 |-> NoDigest]

\* createKeyFromBuffer(keyBuffer): the key it returns and the message of the
\* Error it throws
createKeyFromBuffer(h, keyBuffer) ==
    IF Len(h[keyBuffer]) # 16
    THEN [heap |-> h, ret |-> NoKey, error |-> "Key buffer must be exactly 16 bytes"]
    ELSE [heap |-> h,
          ret |-> [k0 |-> readBigUInt64LE(h[keyBuffer], 0),
                   k1 |-> readBigUInt64LE(h[keyBuffer], 8)],
          error |-> NoError]

\* keyToBuffer(key): writeBigUInt64LE throws a RangeError for a value that is
\* not below 2^64
keyToBuffer(h, key) ==
    IF ~Below(key.k0, 64) \/ ~Below(key.k1, 64)
    THEN Throw(h, "ERR_OUT_OF_RANGE")
    ELSE LET buffer  == allocUnsafe(16)
             written == writeBigUInt64LE(buffer, key.k0, 0)
         IN  Return(Append(h, writeBigUInt64LE(written, key.k1, 8)), Len(h) + 1)

\* the keys the caller holds at first: the sample keys, the smallest and the
\* largest key, and one whose k0 is 2^64
FirstKeys ==
    [k \in 1..NumKeys |-> SampleKey(k)]
        \o <<[k0 |-> {}, k1 |-> {}], [k0 |-> QWORD, k1 |-> QWORD], [k0 |-> {64}, k1 |-> {}]>>

\* the lengths of the Buffer the caller holds at first
KeyBufferLengths == {0, 15, 16, 17}

KeyInit ==
    /\ \E len \in KeyBufferLengths, start \in SipStarts, step \in SipSteps :
            heap = <<Message(len, start, step)>>
    /\ keys = FirstKeys
    /\ calls = <<>>
    /\ sip = NoSip

\* the caller converts a Buffer it holds and keeps the key
CreateKeyFromBuffer(ref) ==
    /\ Len(calls) < MaxCalls
    /\ \E r \in {createKeyFromBuffer(heap, ref)} :
           /\ keys' = IF r.error = NoError THEN Append(keys, r.ret) ELSE keys
           /\ calls' = Append(calls, [fn |-> "createKeyFromBuffer", args |-> <<ref>>,
                                      key |-> IF r.error = NoError THEN Len(keys) + 1 ELSE 0,
                                      options |-> NoOptions, before |-> heap,
                                      error |-> r.error, results |-> <<>>, after |-> r.heap])
    /\ UNCHANGED <<heap, sip>>

\* the caller converts a key it holds and keeps the Buffer
KeyToBuffer(k) ==
    /\ Len(calls) < MaxCalls
    /\ \E r \in {keyToBuffer(heap, keys[k])} :
           /\ heap' = r.heap
           /\ calls' = Append(calls, CallRecord("keyToBuffer", <<>>, k, NoOptions, r, Single(r)))
    /\ UNCHANGED <<keys, sip>>

KeyNext ==
    \/ \E ref \in DOMAIN heap : CreateKeyFromBuffer(ref)
    \/ \E k \in DOMAIN keys : KeyToBuffer(k)

KeySpec == KeyInit /\ [][KeyNext]_vars

(***************************************************************************)
(* key-management.ts, isValidKey.  Its argument is any JavaScript value: a *)
(* record of its typeof, and for an object of whether it is null and of    *)
(* its properties k0 and k1 (undefined when it has none).                  *)
(***************************************************************************)
JsUndefined == [type |-> "undefined"]

JsNull == [type |-> "object", null |-> TRUE]

JsString == [type |-> "string"]

JsNumber == [type |-> "number"]

\* the bigint of the given sign and magnitude
JsBigInt(negative, magnitude) ==
    [type |-> "bigint", negative |-> negative, magnitude |-> magnitude]

\* an object, or an array, with the given properties k0 and k1
JsObject(k0, k1) == [type |-> "object", null |-> FALSE, k0 |-> k0, k1 |-> k1]

\* the object { k0: key.k0, k1: key.k1 } of a key the caller holds
JsKey(key) == JsObject(JsBigInt(FALSE, key.k0), JsBigInt(FALSE, key.k1))

isValidKey(key) ==
    /\ key.type = "object"
    /\ key # JsNull
    /\ key.k0.type = "bigint"
    /\ key.k1.type = "bigint"

\* the words tried as k0 and k1: 0, 1, 2^64 - 1, 2^64 and -1
KeyWords == {JsBigInt(FALSE, {}), JsBigInt(FALSE, {0}), JsBigInt(FALSE, QWORD),
             JsBigInt(FALSE, {64}), JsBigInt(TRUE, {0})}

\* the values given to isValidKey besides the keys the caller holds: null,
\* undefined, {} and [], "string", 42, objects with a word missing or of
\* another type, and objects of two bigints
KeyValues ==
    {JsNull, JsUndefined, JsString, JsNumber}
        \cup {JsObject(k0, k1) : k0, k1 \in {JsUndefined, JsNumber, JsString, JsBigInt(FALSE, {0})}}
        \cup {JsObject(k0, k1) : k0, k1 \in KeyWords}

\* the caller asks whether a value is a key
IsValidKey(x) ==
    /\ Len(calls) < MaxCalls
    /\ calls' = Append(calls, [fn |-> "isValidKey", args |-> <<x>>, key |-> 0,
                               options |-> NoOptions, before |-> heap, error |-> NoError,
                               results |-> <<isValidKey(x)>>, after |-> heap])
    /\ UNCHANGED <<heap, keys, sip>>

ValidNext ==
    \/ \E x \in KeyValues \cup {JsKey(keys[k]) : k \in DOMAIN keys} : IsValidKey(x)
    \/ \E k \in DOMAIN keys : KeyToBuffer(k)
    \/ \E ref \in DOMAIN heap : CreateKeyFromBuffer(ref)

ValidSpec == KeyInit /\ [][ValidNext]_vars

(***************************************************************************)
(* Concurrent calls.  Several calls of encodeV4Facade and decodeV4Facade   *)
(* are in progress on one heap; a step of a call is one statement of the   *)
(* source that reads or writes a Buffer, and one element of a native bulk  *)
(* operation (copy, Buffer.from, the six reads of read48BitsBE).  A call   *)
(* in progress is a record of calls with its position pc, its loop index   *)
(* i and its local variables.                                              *)
(***************************************************************************)
NumThreads == 2

\* buildSipHashInput's allocation with a bug: the message buffer is taken
\* from a pool, so that a call may be handed one another call still uses
AllocMessagePooled(h) ==
    IF \E r \in DOMAIN h : Len(h[r]) = SIPHASH_MESSAGE_LENGTH
    THEN [heap |-> h, ref |-> CHOOSE r \in DOMAIN h : Len(h[r]) = SIPHASH_MESSAGE_LENGTH]
    ELSE [heap |-> Append(h, allocUnsafe(SIPHASH_MESSAGE_LENGTH)), ref |-> Len(h) + 1]

\* Buffer.allocUnsafe(CONSTANTS.SIPHASH_MESSAGE_LENGTH): a new Buffer
AllocMessage(h) ==
    [heap |-> Append(h, allocUnsafe(SIPHASH_MESSAGE_LENGTH)), ref |-> Len(h) + 1]

\* the version a function asks for, the one it stamps, and what it throws
AskedVersion(fn) == IF fn = "encodeV4Facade" THEN V7 ELSE V4

StampedVersion(fn) == IF fn = "encodeV4Facade" THEN V4 ELSE V7

VersionError(fn) ==
    IF fn = "encodeV4Facade" THEN "Input UUID must be version 7"
    ELSE "Input UUID must be version 4"

\* the callers hold an identifier of version 4 or 7 and a version-7 one
ThreadInit ==
    /\ \E version \in {V4, V7} : heap = <<SampleId(version, 2, 1), SampleId(V7, 0, 2)>>
    /\ keys = [k \in 1..NumKeys |-> SampleKey(k)]
    /\ calls = <<>>
    /\ sip = NoSip

\* a call is made: the first on the first identifier with the first key
Call(fn, arg, k) ==
    /\ Len(calls) < NumThreads
    /\ calls = <<>> => (arg = 1 /\ k = 1)
    /\ calls' = Append(calls, [fn |-> fn, arg |-> arg, key |-> k, input |-> heap[arg],
                               pc |-> "getUUIDVersion", i |-> 0, sipInput |-> NoRef,
                               message |-> {}, mask48 |-> {}, timestamp48 |-> {},
                               result |-> NoRef, error |-> NoError])
    /\ UNCHANGED <<heap, keys, sip>>

\* call p is at pc, all the calls having been made
AtPc(p, pc) == Len(calls) = NumThreads /\ calls[p].pc = pc

\* if (getUUIDVersion(uuid) !== version) throw
GetUUIDVersion(p) ==
    /\ AtPc(p, "getUUIDVersion")
    /\ calls' = [calls EXCEPT ![p] =
                    IF getUUIDVersion(heap[calls[p].arg]) # AskedVersion(calls[p].fn)
                    THEN [@ EXCEPT !.pc = "thrown", !.error = VersionError(calls[p].fn)]
                    ELSE [@ EXCEPT !.pc = "allocUnsafe"]]
    /\ UNCHANGED <<heap, keys, sip>>

\* const message = Buffer.allocUnsafe(CONSTANTS.SIPHASH_MESSAGE_LENGTH)
AllocUnsafe(p) ==
    /\ AtPc(p, "allocUnsafe")
    /\ \E a \in {AllocMessage(heap)} :
           /\ heap' = a.heap
           /\ calls' = [calls EXCEPT ![p] = [@ EXCEPT !.pc = "message", !.i = 0,
                                                      !.sipInput = a.ref]]
    /\ UNCHANGED <<keys, sip>>

\* message[0] = uuid[6] & VERSION_MASK; message[1] = uuid[7];
\* message[2] = uuid[8] & VARIANT_MASK_CLEAR: the statement i
MessageByte(p) ==
    /\ AtPc(p, "message")
    /\ LET c == calls[p]
           uuid == heap[c.arg]
           byte == CASE c.i = 0 -> NumAnd(At(uuid, 6), VERSION_MASK)
                     [] c.i = 1 -> At(uuid, 7)
                     [] c.i = 2 -> NumAnd(At(uuid, 8), VARIANT_MASK_CLEAR)
       IN  /\ heap' = [heap EXCEPT ![c.sipInput] = Put(@, c.i, byte)]
           /\ calls' = [calls EXCEPT ![p] = IF c.i = 2 THEN [@ EXCEPT !.pc = "copy", !.i = 0]
                                                       ELSE [@ EXCEPT !.i = c.i + 1]]
    /\ UNCHANGED <<keys, sip>>

\* uuid.copy(message, 3, 9, 16): the element i
Copy(p) ==
    /\ AtPc(p, "copy")
    /\ LET c == calls[p]
       IN  /\ heap' = [heap EXCEPT ![c.sipInput] = Put(@, 3 + c.i, At(heap[c.arg], 9 + c.i))]
           /\ calls' = [calls EXCEPT ![p] = IF c.i = 6 THEN [@ EXCEPT !.pc = "sipMessage", !.i = 0]
                                                       ELSE [@ EXCEPT !.i = c.i + 1]]
    /\ UNCHANGED <<keys, sip>>

\* const message = readUInt64LE(input, 0)
SipMessage(p) ==
    /\ AtPc(p, "sipMessage")
    /\ calls' = [calls EXCEPT ![p] = [@ EXCEPT !.pc = "sipLastBlock",
                                               !.message = readUInt64LE(heap[calls[p].sipInput], 0)]]
    /\ UNCHANGED <<heap, keys, sip>>

\* const lastBlock = ... input[9] ... input[8], the rest of
\* computeSipHashFixed10Bytes, and mask48 = hashResult & MASK_48_BITS
SipLastBlock(p) ==
    /\ AtPc(p, "sipLastBlock")
    /\ LET c == calls[p]
           v == Compress(InitState(keys[c.key]), c.message)
           hashResult == Finalize(Compress(v, LastBlock10(heap[c.sipInput])))
       IN  calls' = [calls EXCEPT ![p] = [@ EXCEPT !.pc = "read48BitsBE", !.i = 0,
                                                  !.mask48 = BigAnd(hashResult, MASK_48_BITS)]]
    /\ UNCHANGED <<heap, keys, sip>>

\* read48BitsBE(uuid, 0): the read of buffer[offset + i]
Read48BitsBE(p) ==
    /\ AtPc(p, "read48BitsBE")
    /\ LET c == calls[p]
           part == BigShl(BigInt(At(heap[c.arg], c.i)), BITS_40 - 8 * c.i)
       IN  calls' = [calls EXCEPT ![p] =
                        IF c.i = 5
                        THEN [@ EXCEPT !.pc = "Buffer.from", !.i = 0,
                                       !.timestamp48 = BigOr(@, part)]
                        ELSE [@ EXCEPT !.i = c.i + 1, !.timestamp48 = BigOr(@, part)]]
    /\ UNCHANGED <<heap, keys, sip>>

\* const result = Buffer.from(uuid): the allocation
BufferFromAlloc(p) ==
    /\ AtPc(p, "Buffer.from")
    /\ heap' = Append(heap, allocUnsafe(UUID_BYTE_LENGTH))
    /\ calls' = [calls EXCEPT ![p] = [@ EXCEPT !.pc = "Buffer.from copy", !.i = 0,
                                               !.result = Len(heap) + 1]]
    /\ UNCHANGED <<keys, sip>>

\* const result = Buffer.from(uuid): the copy of the element i
BufferFromCopy(p) ==
    /\ AtPc(p, "Buffer.from copy")
    /\ LET c == calls[p]
       IN  /\ heap' = [heap EXCEPT ![c.result] = Put(@, c.i, At(heap[c.arg], c.i))]
           /\ calls' = [calls EXCEPT ![p] =
                            IF c.i = UUID_BYTE_LENGTH - 1
                            THEN [@ EXCEPT !.pc = "write48BitsBE", !.i = 0]
                            ELSE [@ EXCEPT !.i = c.i + 1]]
    /\ UNCHANGED <<keys, sip>>

\* write48BitsBE(result, timestamp48 ^ mask48, 0): the statement
\* buffer[offset + i] = Number((value >> ...) & BYTE)
Write48BitsBE(p) ==
    /\ AtPc(p, "write48BitsBE")
    /\ LET c == calls[p]
           value == BigXor(c.timestamp48, c.mask48)
           byte == Number(BigAnd(BigShr(value, BITS_40 - 8 * c.i), BYTE))
       IN  /\ heap' = [heap EXCEPT ![c.result] = Put(@, c.i, byte)]
           /\ calls' = [calls EXCEPT ![p] = IF c.i = 5 THEN [@ EXCEPT !.pc = "setUUIDVersion", !.i = 0]
                                                       ELSE [@ EXCEPT !.i = c.i + 1]]
    /\ UNCHANGED <<keys, sip>>

\* setUUIDVersion(result, version)
SetUUIDVersion(p) ==
    /\ AtPc(p, "setUUIDVersion")
    /\ heap' = [heap EXCEPT ![calls[p].result] = setUUIDVersion(@, StampedVersion(calls[p].fn))]
    /\ calls' = [calls EXCEPT ![p] = [@ EXCEPT !.pc = "setVariantRFC4122"]]
    /\ UNCHANGED <<keys, sip>>

\* setVariantRFC4122(result); return result
SetVariantRFC4122(p) ==
    /\ AtPc(p, "setVariantRFC4122")
    /\ heap' = [heap EXCEPT ![calls[p].result] = setVariantRFC4122(@)]
    /\ calls' = [calls EXCEPT ![p] = [@ EXCEPT !.pc = "returned"]]
    /\ UNCHANGED <<keys, sip>>

ThreadNext ==
    \/ \E fn \in {"encodeV4Facade", "decodeV4Facade"}, arg \in DOMAIN heap, k \in DOMAIN keys :
           Call(fn, arg, k)
    \/ \E p \in DOMAIN calls : GetUUIDVersion(p)
    \/ \E p \in DOMAIN calls : AllocUnsafe(p)
    \/ \E p \in DOMAIN calls : MessageByte(p)
    \/ \E p \in DOMAIN calls : Copy(p)
    \/ \E p \in DOMAIN calls : SipMessage(p)
    \/ \E p \in DOMAIN calls : SipLastBlock(p)
    \/ \E p \in DOMAIN calls : Read48BitsBE(p)
    \/ \E p \in DOMAIN calls : BufferFromAlloc(p)
    \/ \E p \in DOMAIN calls : BufferFromCopy(p)
    \/ \E p \in DOMAIN calls : Write48BitsBE(p)
    \/ \E p \in DOMAIN calls : SetUUIDVersion(p)
    \/ \E p \in DOMAIN calls : SetVariantRFC4122(p)

ThreadSpec == ThreadInit /\ [][ThreadNext]_vars

(***************************************************************************)
(* uuid.ts, parsing and formatting.  A string is the sequence of its       *)
(* UTF-16 code units (0..65535); it is a value, not a Buffer.              *)
(***************************************************************************)
UUID_STRING_LENGTH == 36

\* hexChars = "0123456789abcdef", as character codes
hexChars == <<48, 49, 50, 51, 52, 53, 54, 55, 56, 57, 97, 98, 99, 100, 101, 102>>

\* the Uint8Array(256) after the loops that fill it: 255 everywhere, then for
\* i = 0..15 the entries at the code of hexChars[i] and at that code - 32 set
\* to i; a later i overwrites an earlier one
hexToValue ==
    [code \in 0..255 |->
        LET written == {i \in 0..15 : code = hexChars[i + 1] \/ code = hexChars[i + 1] - 32}
        IN  IF written = {} THEN 255
            ELSE CHOOSE i \in written : \A j \in written : j <= i]

DASH_POSITIONS == <<8, 13, 18, 23>>

HEX_POSITIONS ==
    <<0, 1, 2, 3, 4, 5, 6, 7, 9, 10, 11, 12, 14, 15, 16, 17, 19, 20, 21, 22,
      24, 25, 26, 27, 28, 29, 30, 31, 32, 33, 34, 35>>

UUID_SECTIONS == <<4, 2, 2, 2, 6>>

\* uuidString.charCodeAt(pos), pos within the string
charCodeAt(uuidString, pos) == uuidString[pos + 1]

\* a number a function returned, or undefined
Defined(x) == [defined |-> TRUE, value |-> x]
NotANumber == [defined |-> FALSE, value |-> 0]

\* hexToValue[charCode] is undefined for an index beyond the array, and
\* undefined === 255 is false, so that undefined is returned
fastHexValue(charCode) ==
    IF charCode \notin DOMAIN hexToValue THEN NotANumber
    ELSE IF hexToValue[charCode] = 255 THEN Defined(-1) ELSE Defined(hexToValue[charCode])

\* x as an operand of << and |: undefined is converted to 0
ToInt32(x) == IF x.defined THEN x.value ELSE 0

\* the first position of DASH_POSITIONS, from index n on, where the string
\* has no dash; -1 when there is none
RECURSIVE MissingDash(_, _)
MissingDash(uuidString, n) ==
    IF n > Len(DASH_POSITIONS) THEN -1
    ELSE IF charCodeAt(uuidString, DASH_POSITIONS[n]) # 45 THEN DASH_POSITIONS[n]
    ELSE MissingDash(uuidString, n + 1)

\* the loop of parseUUID with a bug: the low nibble is shifted, not the high
RECURSIVE ParseBytesLowFirst(_, _, _)
ParseBytesLowFirst(uuidString, result, i) ==
    IF i >= UUID_BYTE_LENGTH THEN [result |-> result, failed |-> -1]
    ELSE LET highNibble == fastHexValue(charCodeAt(uuidString, HEX_POSITIONS[i * 2 + 1]))
             lowNibble  == fastHexValue(charCodeAt(uuidString, HEX_POSITIONS[i * 2 + 2]))
         IN  IF highNibble = Defined(-1) \/ lowNibble = Defined(-1)
             THEN [result |-> result, failed |-> i]
             ELSE ParseBytesLowFirst(uuidString,
                             Put(result, i, ToInt32(lowNibble) * 16 + ToInt32(highNibble)),
                             i + 1)

\* the loop of parseUUID over the bytes from i on: the bytes written into
\* result, or the index of the byte where a nibble is -1
RECURSIVE ParseBytes(_, _, _)
ParseBytes(uuidString, result, i) ==
    IF i >= UUID_BYTE_LENGTH THEN [result |-> result, failed |-> -1]
    ELSE LET highNibble == fastHexValue(charCodeAt(uuidString, HEX_POSITIONS[i * 2 + 1]))
             lowNibble  == fastHexValue(charCodeAt(uuidString, HEX_POSITIONS[i * 2 + 2]))
         IN  IF highNibble = Defined(-1) \/ lowNibble = Defined(-1) THEN [result |-> result, failed |-> i]
             ELSE ParseBytes(uuidString,
                             Put(result, i, ToInt32(highNibble) * 16 + ToInt32(lowNibble)),
                             i + 1)

\* parseUUID(uuidString): the Buffer it returns is new; the one allocated
\* before a throw is garbage and is left out of the heap
parseUUID(h, uuidString) ==
    IF Len(uuidString) # UUID_STRING_LENGTH
    THEN Throw(h, "Invalid UUID string length: expected " \o ToString(UUID_STRING_LENGTH)
                      \o ", got " \o ToString(Len(uuidString)))
    ELSE IF MissingDash(uuidString, 1) # -1
    THEN Throw(h, "Invalid UUID format: missing dash at position "
                      \o ToString(MissingDash(uuidString, 1)))
    ELSE LET parsed == ParseBytes(uuidString, allocUnsafe(UUID_BYTE_LENGTH), 0)
         IN  IF parsed.failed # -1
             THEN Throw(h, "Invalid hex character in UUID at position "
                               \o ToString(parsed.failed * 2))
             ELSE Return(Append(h, parsed.result), Len(h) + 1)

\* the loop of isValidUUIDString over the bytes from i on
RECURSIVE ValidBytes(_, _)
ValidBytes(uuidString, i) ==
    IF i >= UUID_BYTE_LENGTH THEN TRUE
    ELSE IF fastHexValue(charCodeAt(uuidString, HEX_POSITIONS[i * 2 + 1])) = Defined(-1)
            \/ fastHexValue(charCodeAt(uuidString, HEX_POSITIONS[i * 2 + 2])) = Defined(-1)
    THEN FALSE
    ELSE ValidBytes(uuidString, i + 1)

isValidUUIDString(uuidString) ==
    IF Len(uuidString) # UUID_STRING_LENGTH THEN FALSE
    ELSE IF MissingDash(uuidString, 1) # -1 THEN FALSE
    ELSE ValidBytes(uuidString, 0)

\* the inner loop of formatUUID with a bug: the two characters of a byte
\* change places
RECURSIVE FormatBytesSwapped(_, _, _, _)
FormatBytesSwapped(uuid, byteIndex, sectionLength, result) ==
    IF sectionLength = 0 THEN result
    ELSE FormatBytesSwapped(uuid, byteIndex + 1, sectionLength - 1,
                            result \o <<hexChars[(At(uuid, byteIndex) % 16) + 1],
                                        hexChars[(At(uuid, byteIndex) \div 16) + 1]>>)

\* the inner loop of formatUUID: the two characters of each of the next
\* sectionLength bytes
RECURSIVE FormatBytes(_, _, _, _)
FormatBytes(uuid, byteIndex, sectionLength, result) ==
    IF sectionLength = 0 THEN result
    ELSE FormatBytes(uuid, byteIndex + 1, sectionLength - 1,
                     result \o <<hexChars[(At(uuid, byteIndex) \div 16) + 1],
                                 hexChars[(At(uuid, byteIndex) % 16) + 1]>>)

\* the outer loop of formatUUID from section sectionIndex on (counted from 0)
RECURSIVE FormatSections(_, _, _, _)
FormatSections(uuid, sectionIndex, byteIndex, result) ==
    IF sectionIndex >= Len(UUID_SECTIONS) THEN result
    ELSE FormatSections(uuid, sectionIndex + 1, byteIndex + UUID_SECTIONS[sectionIndex + 1],
                        FormatBytes(uuid, byteIndex, UUID_SECTIONS[sectionIndex + 1],
                                    IF sectionIndex > 0 THEN Append(result, 45) ELSE result))

\* formatUUID(uuid): result.join("")
formatUUID(uuid) == FormatSections(uuid, 0, 0, <<>>)

(***************************************************************************)
(* A caller of the string functions holds a Buffer and strings: canonical  *)
(* ones, ones of another length, and ones with another character at one    *)
(* position.                                                               *)
(***************************************************************************)
\* the character codes put into a string: around the digits and letters,
\* 32 below the digits, and beyond the lookup table
ProbeCodes == {0, 15, 16, 20, 25, 26, 32, 45, 47, 48, 57, 58, 64, 65, 70, 71, 96, 97, 102, 103,
               255, 256, 304, 353, 65535}

\* the positions where it is put: hex positions and dash positions
ProbePositions == {0, 7, 8, 9, 13, 23, 35}

\* s with its letters a-f in upper case
UpperCase(s) == [i \in DOMAIN s |-> IF s[i] \in 97..102 THEN s[i] - 32 ELSE s[i]]

\* the canonical strings: 018f4e7c-3c4a-7000-8000-123456789abc and
\* ffffffff-ffff-ffff-bfff-ffffffffffff, in lower and in upper case
CanonicalStrings ==
    {formatUUID(SampleId(7, 2, b)) : b \in 1..2}
        \cup {UpperCase(formatUUID(SampleId(7, 2, b))) : b \in 1..2}

\* the strings the caller holds
Strings ==
    CanonicalStrings
        \cup {[s EXCEPT ![pos + 1] = code] :
                  s \in CanonicalStrings, pos \in ProbePositions, code \in ProbeCodes}
        \cup {SubSeq(formatUUID(SampleId(7, 2, 1)), 1, len) : len \in {0, 7, 32, 35}}
        \cup {formatUUID(SampleId(7, 2, 1)) \o <<48>>}

StringInit ==
    /\ \E start \in SipStarts, step \in SipSteps : heap = <<Message(UUID_BYTE_LENGTH, start, step)>>
    /\ keys = [k \in 1..NumKeys |-> SampleKey(k)]
    /\ calls = <<>>
    /\ sip = NoSip

\* the strings formatUUID returned to the caller
Formatted == {calls[c].results[1] : c \in {d \in DOMAIN calls : calls[d].fn = "formatUUID"}}

\* the caller parses a string it holds, as its first call, or one formatUUID
\* returned
ParseUUID(uuidString) ==
    /\ Len(calls) < MaxCalls
    /\ calls = <<>> \/ uuidString \in Formatted
    /\ \E r \in {parseUUID(heap, uuidString)} :
           /\ heap' = r.heap
           /\ calls' = Append(calls, CallRecord("parseUUID", <<uuidString>>, 0, NoOptions,
                                                r, Single(r)))
    /\ UNCHANGED <<keys, sip>>

\* the caller validates a string it holds, as its only call
IsValidUUIDString(uuidString) ==
    /\ calls = <<>>
    /\ calls' = Append(calls, [fn |-> "isValidUUIDString", args |-> <<uuidString>>, key |-> 0,
                               options |-> NoOptions, before |-> heap, error |-> NoError,
                               results |-> <<isValidUUIDString(uuidString)>>, after |-> heap])
    /\ UNCHANGED <<heap, keys, sip>>

\* the caller formats a Buffer it holds or one parseUUID returned
FormatUUID(ref) ==
    /\ Len(calls) < MaxCalls
    /\ calls' = Append(calls, [fn |-> "formatUUID", args |-> <<ref>>, key |-> 0,
                               options |-> NoOptions, before |-> heap, error |-> NoError,
                               results |-> <<formatUUID(heap[ref])>>, after |-> heap])
    /\ UNCHANGED <<heap, keys, sip>>

StringNext ==
    \/ \E uuidString \in Strings \cup Formatted : ParseUUID(uuidString)
    \/ \E uuidString \in Strings : IsValidUUIDString(uuidString)
    \/ \E ref \in DOMAIN heap : FormatUUID(ref)

StringSpec == StringInit /\ [][StringNext]_vars

(***************************************************************************)
(* uuid.ts, extractTimestampFromV7.  A Date is the record of its time      *)
(* value, a bigint of milliseconds, or the invalid Date.                   *)
(***************************************************************************)
\* buf.readUIntLE(offset, byteLength) of Node: the first byte is the lowest
RECURSIVE readUIntLE(_, _, _)
readUIntLE(buffer, offset, byteLength) ==
    IF byteLength = 0 THEN {}
    ELSE BigOr(BigInt(At(buffer, offset)),
               BigShl(readUIntLE(buffer, offset + 1, byteLength - 1), BITS_8))

\* buf.readUIntBE(offset, byteLength) of Node, byteLength at most 6: the
\* last byte is the lowest
RECURSIVE readUIntBE(_, _, _)
readUIntBE(buffer, offset, byteLength) ==
    IF byteLength = 0 THEN {}
    ELSE BigOr(BigShl(readUIntBE(buffer, offset, byteLength - 1), BITS_8),
               BigInt(At(buffer, offset + byteLength - 1)))

InvalidDate == [time |-> {-1}]

\* new Date(value) for value a whole number of milliseconds, not negative:
\* the time value is value, and no valid Date is beyond 8.64e15 < 2^53
NewDate(value) == IF \E bit \in value : bit >= 53 THEN InvalidDate ELSE [time |-> value]

\* extractTimestampFromV7(uuid): the error, or the Date returned
extractTimestampFromV7(uuid) ==
    LET version == getUUIDVersion(uuid)
    IN  IF version # V7
        THEN [error |-> "Cannot extract timestamp: UUID is version " \o ToString(version)
                            \o ", expected version 7",
              results |-> <<>>]
        ELSE [error |-> NoError, results |-> <<NewDate(readUIntBE(uuid, 0, 6))>>]

\* the bodies of the identifiers whose timestamp is asked for
TimestampBodies == {1, 2, 3}

\* the caller holds one identifier of any version nibble and variant, with
\* the timestamp of a sample body or with timestamp 0
TimestampInit ==
    /\ \E version \in 0..15, variant \in {0, 2}, b \in TimestampBodies, zero \in BOOLEAN :
           heap = <<[i \in 1..UUID_BYTE_LENGTH |->
                       IF zero /\ i <= 6 THEN 0 ELSE SampleId(version, variant, b)[i]]>>
    /\ keys = [k \in 1..NumKeys |-> SampleKey(k)]
    /\ calls = <<>>
    /\ sip = NoSip

ExtractTimestampFromV7(ref) ==
    /\ Len(calls) < MaxCalls
    /\ \E r \in {extractTimestampFromV7(heap[ref])} :
           calls' = Append(calls, [fn |-> "extractTimestampFromV7", args |-> <<ref>>, key |-> 0,
                                   options |-> NoOptions, before |-> heap, error |-> r.error,
                                   results |-> r.results, after |-> heap])
    /\ UNCHANGED <<heap, keys, sip>>

TimestampNext == \E ref \in DOMAIN heap : ExtractTimestampFromV7(ref)

TimestampSpec == TimestampInit /\ [][TimestampNext]_vars

\* the caller parses a string it holds and asks for the timestamp of the
\* identifier
DateNext ==
    \/ \E uuidString \in Strings : ParseUUID(uuidString)
    \/ \E ref \in DOMAIN heap : ExtractTimestampFromV7(ref)

DateSpec == StringInit /\ [][DateNext]_vars

(***************************************************************************)
(* The vocabulary of the properties.                                       *)
(***************************************************************************)
\* the high nibble of byte 6
VersionNibble(uuid) == At(uuid, 6) \div 16

\* the top two bits of byte 8
VariantBits(uuid) == At(uuid, 8) \div 64

\* the 74 random bits: the low nibble of byte 6, byte 7, the low 6 bits of
\* byte 8 and bytes 9-15
RandomBits(uuid) == <<At(uuid, 6) % 16, At(uuid, 7), At(uuid, 8) % 64, SubSeq(uuid, 10, 16)>>

Encoders == {"encodeV4Facade", "encodeV4FacadeWithOptions"}

Decoders == {"decodeV4Facade", "decodeV4FacadeWithOptions"}

\* the version nibble a function asks of its input
Asked(fn) == IF fn \in Encoders THEN V7 ELSE V4

\* the call was told to skip validation
Skips(call) == call.options.given /\ call.options.skipValidation = "true"

\* the identifier a call on one identifier was given, as it was before the call
Input(call) == call.before[call.args[1]]

\* the identifier a call on one identifier returned, as it was after the call
Output(call) == call.after[call.results[1]]

\* the calls on one identifier made so far
SingleCalls == {c \in DOMAIN calls : calls[c].fn \in SingleFns}

\* the calls made so far, the caller's writes left out
FunctionCalls == {c \in DOMAIN calls : calls[c].fn # "write"}

\* calls[1] encoded a version-7 identifier with variant bits 10 and calls[2]
\* decoded what it returned
EncodedThenDecoded ==
    /\ Len(calls) = 2
    /\ calls[1].fn = "encodeV4Facade"
    /\ VersionNibble(Input(calls[1])) = 7
    /\ VariantBits(Input(calls[1])) = 2
    /\ calls[2].fn = "decodeV4Facade"
    /\ calls[2].args = calls[1].results

(***************************************************************************)
(* The properties of encode and decode, under Spec.                        *)
(***************************************************************************)
\* C1: round trip.  When encodeV4Facade is given an identifier U with version
\* nibble 7 and variant bits 10 and decodeV4Facade is given what it returned
\* and the same key, both return and the decoded buffer equals U in all 16
\* bytes.
C1_RoundTrip ==
    (EncodedThenDecoded /\ calls[2].key = calls[1].key)
        => /\ calls[1].error = NoError
           /\ calls[2].error = NoError
           /\ Output(calls[2]) = Input(calls[1])

\* a round trip was made, and the facade in the middle differs from U
C1_Witness ==
    /\ EncodedThenDecoded
    /\ calls[2].key = calls[1].key
    /\ calls[2].error = NoError
    /\ Output(calls[1]) # Input(calls[1])

\* C2: random-bits invariance.  What encodeV4Facade returns for a version-7
\* identifier, and what decodeV4Facade returns for a version-4 identifier,
\* equals the input in the low nibble of byte 6, in byte 7, in the low 6 bits
\* of byte 8 and in bytes 9-15.
C2_RandomBits ==
    \A c \in SingleCalls :
        (/\ calls[c].fn \in {"encodeV4Facade", "decodeV4Facade"}
         /\ VersionNibble(Input(calls[c])) = Asked(calls[c].fn))
            => /\ calls[c].error = NoError
               /\ RandomBits(Output(calls[c])) = RandomBits(Input(calls[c]))

\* decodeV4Facade returned an identifier that differs from its input, whose
\* random bits are not all zero
C2_Witness ==
    \E c \in SingleCalls :
        /\ calls[c].fn = "decodeV4Facade"
        /\ calls[c].error = NoError
        /\ Output(calls[c]) # Input(calls[c])
        /\ At(Input(calls[c]), 6) % 16 # 0

\* C3: output version and variant.  Every buffer the two encoders return,
\* validation skipped or not, has version nibble 4 and variant bits 10, and
\* every buffer the two decoders return has version nibble 7 and variant bits
\* 10, whatever the version nibble and variant bits of the input.
C3_VersionVariant ==
    \A c \in SingleCalls :
        calls[c].error = NoError
            => /\ VersionNibble(Output(calls[c])) = (IF calls[c].fn \in Encoders THEN 4 ELSE 7)
               /\ VariantBits(Output(calls[c])) = 2

\* an encoder that skipped validation returned for an input of another
\* version and another variant
C3_Witness ==
    \E c \in SingleCalls :
        /\ calls[c].fn = "encodeV4FacadeWithOptions"
        /\ Skips(calls[c])
        /\ calls[c].error = NoError
        /\ VersionNibble(Input(calls[c])) \notin {4, 7}
        /\ VariantBits(Input(calls[c])) # 2

\* C4: non-mutation.  A call of encode, decode, their WithOptions or batch
\* variants leaves every byte of every buffer that existed before it
\* unchanged, whether it returns or raises, and leaves the keys unchanged;
\* the buffers it returns are new ones, each its own; and after the caller
\* writes to a returned buffer the inputs of the call still are as they were
\* before the call.
C4_NonMutation ==
    /\ keys = [k \in 1..NumKeys |-> SampleKey(k)]
    /\ \A c \in FunctionCalls :
          /\ \A ref \in DOMAIN calls[c].before : calls[c].after[ref] = calls[c].before[ref]
          /\ \A i \in DOMAIN calls[c].results :
                /\ calls[c].results[i] \notin DOMAIN calls[c].before
                /\ \A j \in DOMAIN calls[c].results :
                      calls[c].results[j] = calls[c].results[i] => j = i
    /\ (Len(calls) = 2 /\ calls[2].fn = "write")
          => \A i \in DOMAIN calls[1].args :
                heap[calls[1].args[i]] = calls[1].before[calls[1].args[i]]

\* a batch call returned two buffers for the same input given twice, and the
\* caller wrote to one of them
C4_Witness ==
    /\ Len(calls) = 2
    /\ calls[1].fn = "batchEncodeV4FacadeWithOptions"
    /\ calls[1].args = <<1, 1>>
    /\ Len(calls[1].results) = 2
    /\ calls[2].fn = "write"
    /\ heap[calls[2].args[1]] # calls[1].after[calls[2].args[1]]

\* C5: rejection.  An encoder that validates raises, and returns nothing,
\* exactly when the version nibble of its input is not 7, and a decoder that
\* validates exactly when it is not 4: for each of the 15 other nibbles,
\* whatever the other bits of the input and whatever the key.
C5_Rejection ==
    \A c \in SingleCalls :
        ~Skips(calls[c])
            => /\ (calls[c].error # NoError)
                      <=> (VersionNibble(Input(calls[c])) # Asked(calls[c].fn))
               /\ (calls[c].error # NoError) => calls[c].results = <<>>

\* after a decoder returned, an encoder given the same input, the caller's
\* second key and options that do not skip validation rejected it
C5_Witness ==
    /\ Len(calls) = 2
    /\ calls[1].fn = "decodeV4FacadeWithOptions"
    /\ calls[2].fn = "encodeV4FacadeWithOptions"
    /\ calls[2].options.given
    /\ calls[2].key = 2
    /\ calls[2].args = <<1>>
    /\ calls[2].error # NoError

\* C6, as the code has it: the error an encoder raises for an input that is
\* not version 7 is an Error with the message "Input UUID must be version 7",
\* and the one a decoder raises for an input that is not version 4 has the
\* message "Input UUID must be version 4", whatever version nibble the input
\* has: the error does not tell the version found.
C6_FixedMessage ==
    \A c \in SingleCalls :
        calls[c].error # NoError
            => calls[c].error = (IF calls[c].fn \in Encoders
                                 THEN "Input UUID must be version 7"
                                 ELSE "Input UUID must be version 4")

\* a decoder rejected an input whose version nibble is neither 4 nor 7
C6_Witness ==
    \E c \in SingleCalls :
        /\ calls[c].fn = "decodeV4Facade"
        /\ calls[c].error # NoError
        /\ VersionNibble(Input(calls[c])) \notin {4, 7}

\* C6, as stated: the error reports the version nibble found, so that
\* encodeV4Facade raises a different error for the rejected input with any
\* other version nibble.
C6_ReportsVersion ==
    \A c \in SingleCalls :
        (calls[c].fn = "encodeV4Facade" /\ calls[c].error # NoError)
            => \A version \in Versions \ {V7, VersionNibble(Input(calls[c]))} :
                  encodeV4Facade(<<SampleId(version, 2, 1)>>, 1, keys[1]).error
                      # calls[c].error

\* C7: wrong key.  When encodeV4Facade is given an identifier U with version
\* nibble 7 and variant bits 10 and decodeV4Facade is given what it returned
\* and any key, the same or another, decodeV4Facade does not raise: it
\* returns an identifier with version nibble 7 and variant bits 10 that
\* equals U in bytes 6-15.
C7_WrongKey ==
    EncodedThenDecoded
        => /\ calls[2].error = NoError
           /\ VersionNibble(Output(calls[2])) = 7
           /\ VariantBits(Output(calls[2])) = 2
           /\ SubSeq(Output(calls[2]), 7, 16) = SubSeq(Input(calls[1]), 7, 16)

\* decodeV4Facade was given another key and returned another timestamp
C7_Witness ==
    /\ EncodedThenDecoded
    /\ calls[2].key # calls[1].key
    /\ calls[2].error = NoError
    /\ SubSeq(Output(calls[2]), 1, 6) # SubSeq(Input(calls[1]), 1, 6)

\* the second call was given the identifier and the key of the first, an
\* identifier of the version both ask for
SameValidInput ==
    /\ Len(calls) = 2
    /\ calls[1].fn \in SingleFns
    /\ calls[2].fn \in SingleFns
    /\ Asked(calls[1].fn) = Asked(calls[2].fn)
    /\ calls[2].args = calls[1].args
    /\ calls[2].key = calls[1].key
    /\ VersionNibble(Input(calls[1])) = Asked(calls[1].fn)

\* C11: skipping validation never changes the output for valid input.  For
\* a version-7 identifier and a key, encodeV4FacadeWithOptions returns, for
\* options undefined, {}, {skipValidation: false} and {skipValidation: true},
\* the 16 bytes encodeV4Facade returns; and likewise
\* decodeV4FacadeWithOptions and decodeV4Facade for a version-4 identifier.
C11_SkipValidationSame ==
    SameValidInput
        => /\ calls[1].error = NoError
           /\ calls[2].error = NoError
           /\ Output(calls[2]) = Output(calls[1])

\* encodeV4Facade and then encodeV4FacadeWithOptions, validation skipped,
\* were given the same version-7 identifier and returned a buffer each, which
\* differs from the identifier
C11_Witness ==
    /\ SameValidInput
    /\ calls[1].fn = "encodeV4Facade"
    /\ calls[2].fn = "encodeV4FacadeWithOptions"
    /\ Skips(calls[2])
    /\ calls[2].results # calls[1].results
    /\ Output(calls[2]) # Input(calls[2])

(***************************************************************************)
(* The properties of the batch functions, under BatchSpec.                 *)
(***************************************************************************)
BatchEncoders == {"batchEncodeV4Facade", "batchEncodeV4FacadeWithOptions"}

BatchFns == {"batchEncodeV4Facade", "batchDecodeV4Facade",
             "batchEncodeV4FacadeWithOptions", "batchDecodeV4FacadeWithOptions"}

\* the version nibble a batch function asks of its items
BatchAsked(fn) == IF fn \in BatchEncoders THEN V7 ELSE V4

\* the i-th identifier a batch call was given, as it was before the call
Item(call, i) == call.before[call.args[i]]

\* the i-th identifier a batch call returned, as it was after the call
Result(call, i) == call.after[call.results[i]]

\* what the function on one identifier leaves when given, with the heap as
\* it was before the batch call, the i-th item and the key of the call
Alone(call, i) ==
    IF call.fn \in BatchEncoders
    THEN encodeV4Facade(call.before, call.args[i], keys[call.key])
    ELSE decodeV4Facade(call.before, call.args[i], keys[call.key])

\* the identifier Alone(call, i) returns
AloneResult(call, i) == Alone(call, i).heap[Alone(call, i).ret]

\* the items of the call with a version nibble other than the one asked
Wrong(call) == {i \in DOMAIN call.args : VersionNibble(Item(call, i)) # BatchAsked(call.fn)}

FirstWrong(call) == CHOOSE i \in Wrong(call) : \A j \in Wrong(call) : i <= j

\* C13: batch fail-first.  When the list given to batchEncodeV4Facade or
\* batchDecodeV4Facade has an item with the wrong version nibble, the call
\* raises the error the function on one identifier raises for the first such
\* item and returns no list; the items before it were transformed in
\* increasing index order, each into a new buffer, and no buffer was made
\* for the item or for a later one.
C13_FailFirst ==
    \A c \in DOMAIN calls :
        (calls[c].fn \in {"batchEncodeV4Facade", "batchDecodeV4Facade"}
              /\ Wrong(calls[c]) # {})
            => /\ calls[c].error # NoError
               /\ calls[c].error = Alone(calls[c], FirstWrong(calls[c])).error
               /\ calls[c].results = <<>>
               /\ Len(calls[c].after) = Len(calls[c].before) + FirstWrong(calls[c]) - 1
               /\ \A j \in 1..(FirstWrong(calls[c]) - 1) :
                     calls[c].after[Len(calls[c].before) + j] = AloneResult(calls[c], j)

\* batchDecodeV4Facade was given a version-4 identifier and then another of
\* a wrong version: it raised, having transformed the first
C13_Witness ==
    \E c \in DOMAIN calls :
        /\ calls[c].fn = "batchDecodeV4Facade"
        /\ Len(calls[c].args) = 2
        /\ calls[c].args[1] # calls[c].args[2]
        /\ Wrong(calls[c]) = {2}
        /\ calls[c].error = "Input UUID must be version 4"
        /\ Len(calls[c].after) = Len(calls[c].before) + 1

\* C14, as stated: batchEncodeV4FacadeWithOptions and
\* batchDecodeV4FacadeWithOptions called with skipValidation: true do not
\* fail on an item with the wrong version nibble; they return one buffer for
\* each item, whether useBatchProcessing is true, false or not given.
C14_SkipNeverFails ==
    \A c \in DOMAIN calls :
        (calls[c].fn \in {"batchEncodeV4FacadeWithOptions", "batchDecodeV4FacadeWithOptions"}
              /\ Skips(calls[c]))
            => /\ calls[c].error = NoError
               /\ Len(calls[c].results) = Len(calls[c].args)

\* batchEncodeV4FacadeWithOptions was told to skip validation and was given
\* an item with the wrong version nibble
C14_Witness ==
    \E c \in DOMAIN calls :
        /\ calls[c].fn = "batchEncodeV4FacadeWithOptions"
        /\ Skips(calls[c])
        /\ calls[c].options.useBatchProcessing = Undefined
        /\ Wrong(calls[c]) # {}

\* C14 where useBatchProcessing is false, the one setting where the code
\* hands the options to the function on one identifier
C14_SkipIndividually ==
    \A c \in DOMAIN calls :
        (calls[c].fn \in {"batchEncodeV4FacadeWithOptions", "batchDecodeV4FacadeWithOptions"}
              /\ Skips(calls[c]) /\ calls[c].options.useBatchProcessing = "false")
            => /\ calls[c].error = NoError
               /\ Len(calls[c].results) = Len(calls[c].args)

(***************************************************************************)
(* The properties of the mask input, under MessageSpec.                    *)
(***************************************************************************)
\* the 10 bytes of the mask input of an identifier, as the layout has them:
\* the low nibble of byte 6, byte 7, the low 6 bits of byte 8, bytes 9-15
MaskInput(uuid) ==
    <<At(uuid, 6) % 16, At(uuid, 7), At(uuid, 8) % 64>> \o SubSeq(uuid, 10, 16)

\* the calls of buildSipHashInput made so far
MessageCalls == {c \in DOMAIN calls : calls[c].fn = "buildSipHashInput"}

\* C15: mask input.  buildSipHashInput returns for an identifier U exactly
\* 10 bytes, each of them written: U[6] AND 0x0f, U[7], U[8] AND 0x3f and
\* U[9..15]; they do not depend on bytes 0-5, the version nibble or the
\* variant bits of U, so that the message of what encodeV4Facade returned for
\* a version-7 identifier U is the message of U.
C15_MaskInput ==
    /\ \A c \in MessageCalls :
          /\ Len(Output(calls[c])) = 10
          /\ \A i \in 1..10 : Output(calls[c])[i] \in 0..255
          /\ Output(calls[c]) = MaskInput(Input(calls[c]))
          /\ calls[c].after[calls[c].args[1]] = Input(calls[c])
    /\ (Len(calls) = 2 /\ calls[1].fn \in SingleFns /\ calls[2].fn = "buildSipHashInput"
            /\ calls[2].args = calls[1].results)
          => Output(calls[2]) = MaskInput(Input(calls[1]))

\* buildSipHashInput was given what encodeV4Facade returned for an
\* identifier whose variant bits are not 10, another identifier with the
\* message of the first
C15_Witness ==
    /\ Len(calls) = 2
    /\ calls[1].fn = "encodeV4Facade"
    /\ VariantBits(Input(calls[1])) # 2
    /\ calls[2].fn = "buildSipHashInput"
    /\ calls[2].args = calls[1].results
    /\ Input(calls[2]) # Input(calls[1])
    /\ Output(calls[2]) = buildSipHashInput(Input(calls[1]))

(***************************************************************************)
(* The properties of SipHash, under SipSpec.                               *)
(***************************************************************************)
\* the digests the test expects for the messages 0, 1, ..., len - 1, len
\* from 0 to 12, as bytes
expectedVectors ==
    << <<\H31, \H0e, \H0e, \Hdd, \H47, \Hdb, \H6f, \H72>>,
       <<\Hfd, \H67, \Hdc, \H93, \Hc5, \H39, \Hf8, \H74>>,
       <<\H5a, \H4f, \Ha9, \Hd9, \H09, \H80, \H6c, \H0d>>,
       <<\H2d, \H7e, \Hfb, \Hd7, \H96, \H66, \H67, \H85>>,
       <<\Hb7, \H87, \H71, \H27, \He0, \H94, \H27, \Hcf>>,
       <<\H8d, \Ha6, \H99, \Hcd, \H64, \H55, \H76, \H18>>,
       <<\Hce, \He3, \Hfe, \H58, \H6e, \H46, \Hc9, \Hcb>>,
       <<\H37, \Hd1, \H01, \H8b, \Hf5, \H00, \H02, \Hab>>,
       <<\H62, \H24, \H93, \H9a, \H79, \Hf5, \Hf5, \H93>>,
       <<\Hb0, \He4, \Ha9, \H0b, \Hdf, \H82, \H00, \H9e>>,
       <<\Hf3, \Hb9, \Hdd, \H94, \Hc5, \Hbb, \H5d, \H7a>>,
       <<\Ha7, \Had, \H6b, \H22, \H46, \H2f, \Hb3, \Hf4>>,
       <<\Hfb, \He5, \H0e, \H86, \Hbc, \H8f, \H1e, \H75>> >>

\* the little-endian word of the bytes bs
LittleEndian(bs) == UNION {BigShl(BigInt(bs[i]), 8 * (i - 1)) : i \in 1..Len(bs)}

\* the key of the reference vectors: k0 = 0x0706050403020100, k1 = 0x0f0e0d0c0b0a0908
ReferenceKey == [k0 |-> LittleEndian(<<0, 1, 2, 3, 4, 5, 6, 7>>),
                 k1 |-> LittleEndian(<<8, 9, 10, 11, 12, 13, 14, 15>>)]

\* computeSipHash ran with the reference key on the message 0, 1, ..., len - 1
RanOnReference(len) ==
    /\ sip.ran # {}
    /\ keys[sip.key] = ReferenceKey
    /\ sip.input = Message(len, 0, 1)

\* C8: SipHash reference vectors.  With the key k0 = 0x0706050403020100,
\* k1 = 0x0f0e0d0c0b0a0908, computeSipHash returns for the message 0, 1, ...,
\* len - 1, for each len from 0 to 12, the reference digest read as a
\* little-endian 64-bit word.
C8_ReferenceVectors ==
    \A len \in 0..12 :
        RanOnReference(len) => sip.general = LittleEndian(expectedVectors[len + 1])

\* computeSipHash returned the reference digest of the message of 12 bytes
C8_Witness ==
    /\ RanOnReference(12)
    /\ sip.general = LittleEndian(expectedVectors[13])

\* C9: fast-path equivalence.  computeSipHashFixed10Bytes returns for a
\* message of 10 bytes and a key the value computeSipHash returns for them.
C9_FastPath ==
    "computeSipHashFixed10Bytes" \in sip.ran
        => /\ sip.fixed # NoDigest
           /\ sip.fixed = sip.general

\* both ran on a message that is not 0, 1, ..., 9, with a key that is not the
\* reference key
C9_Witness ==
    /\ sip.ran = {"computeSipHash", "computeSipHashFixed10Bytes"}
    /\ Len(sip.input) = 10
    /\ sip.input # Message(10, 0, 1)
    /\ keys[sip.key] # ReferenceKey
    /\ Below(sip.fixed, 64)

\* the final block word of SipHash-2-4 for the message input: its last
\* length mod 8 bytes, little-endian, below the byte length mod 256
FinalWord(input) ==
    BigOr(LittleEndian(SubSeq(input, Len(input) - (Len(input) % 8) + 1, Len(input))),
          BigShl(BigInt(Len(input) % 256), 56))

\* C10, as stated: for a message of every length L the final block word of
\* computeSipHash holds the last L mod 8 bytes little-endian in its low bits
\* and L mod 256 in its top byte, and is below 2^64.
C10_FinalBlock ==
    sip.ran # {}
        => /\ sip.lastBlock = FinalWord(sip.input)
           /\ Below(sip.lastBlock, 64)

\* computeSipHash ran on a message of 256 bytes or more
C10_Witness == sip.ran # {} /\ Len(sip.input) >= 256

\* C10 for the messages shorter than 256 bytes, where the code does as stated
C10_ShortMessages ==
    (sip.ran # {} /\ Len(sip.input) < 256)
        => /\ sip.lastBlock = FinalWord(sip.input)
           /\ Below(sip.lastBlock, 64)

(***************************************************************************)
(* The properties of the key conversions, under KeySpec.                   *)
(***************************************************************************)
\* both words of the key are unsigned 64-bit integers
Unsigned64(key) == Below(key.k0, 64) /\ Below(key.k1, 64)

\* C16: key serialisation round trip.  createKeyFromBuffer reads k0 from
\* bytes 0-7 and k1 from bytes 8-15 of a 16-byte buffer, little-endian, and
\* keyToBuffer writes a key of two unsigned 64-bit integers the same way into
\* a buffer of 16 bytes; so createKeyFromBuffer given what keyToBuffer
\* returned for a key returns that key, and keyToBuffer given what
\* createKeyFromBuffer returned for a 16-byte buffer returns its bytes.
C16_KeyRoundTrip ==
    /\ \A c \in DOMAIN calls :
          /\ (calls[c].fn = "createKeyFromBuffer" /\ Len(Input(calls[c])) = 16)
                => /\ calls[c].error = NoError
                   /\ keys[calls[c].key].k0 = LittleEndian(SubSeq(Input(calls[c]), 1, 8))
                   /\ keys[calls[c].key].k1 = LittleEndian(SubSeq(Input(calls[c]), 9, 16))
          /\ (calls[c].fn = "keyToBuffer" /\ Unsigned64(keys[calls[c].key]))
                => /\ calls[c].error = NoError
                   /\ Len(Output(calls[c])) = 16
                   /\ \A i \in 1..16 : Output(calls[c])[i] \in 0..255
                   /\ LittleEndian(SubSeq(Output(calls[c]), 1, 8)) = keys[calls[c].key].k0
                   /\ LittleEndian(SubSeq(Output(calls[c]), 9, 16)) = keys[calls[c].key].k1
    /\ (Len(calls) = 2 /\ calls[1].fn = "keyToBuffer" /\ Unsigned64(keys[calls[1].key])
            /\ calls[2].fn = "createKeyFromBuffer" /\ calls[2].args = calls[1].results)
          => keys[calls[2].key] = keys[calls[1].key]
    /\ (Len(calls) = 2 /\ calls[1].fn = "createKeyFromBuffer" /\ Len(Input(calls[1])) = 16
            /\ calls[2].fn = "keyToBuffer" /\ calls[2].key = calls[1].key)
          => Output(calls[2]) = Input(calls[1])

\* a key whose two words differ was written and read back, and a buffer
\* whose bytes all differ was read and written back
C16_Witness ==
    /\ Len(calls) = 2
    /\ \/ /\ calls[1].fn = "keyToBuffer"
          /\ keys[calls[1].key] = SampleKey(1)
          /\ calls[2].fn = "createKeyFromBuffer"
          /\ calls[2].args = calls[1].results
          /\ calls[2].key > Len(FirstKeys)
          /\ keys[calls[2].key] = SampleKey(1)
       \/ /\ calls[1].fn = "createKeyFromBuffer"
          /\ Input(calls[1]) = Message(16, 10, 10)
          /\ calls[2].fn = "keyToBuffer"
          /\ calls[2].key = calls[1].key
          /\ calls[2].results # calls[1].args
          /\ Output(calls[2]) = Message(16, 10, 10)

(***************************************************************************)
(* The properties of concurrent calls, under ThreadSpec.                   *)
(***************************************************************************)
\* what the function gives when it runs alone on the identifier the call
\* was given, with the key of the call
RunAlone(call) ==
    IF call.fn = "encodeV4Facade" THEN encodeV4Facade(<<call.input>>, 1, keys[call.key])
    ELSE decodeV4Facade(<<call.input>>, 1, keys[call.key])

\* the calls that have ended
Ended == {p \in DOMAIN calls : calls[p].pc \in {"returned", "thrown"}}

\* the Buffers call p has allocated: its message and its result
Allocated(p) == {calls[p].sipInput, calls[p].result} \ {NoRef}

\* C17: concurrent calls do not interfere.  However the steps of the calls
\* are interleaved, on the same identifier and key or on others, the message
\* and result buffers of a call are its own, neither an identifier given to
\* a call nor a buffer of another call; no identifier given to a call is
\* written; and a call that has ended raised or returned exactly what the
\* function raises or returns when it runs alone on that identifier with
\* that key.
C17_NoInterference ==
    /\ \A p, q \in DOMAIN calls :
          /\ calls[q].arg \notin Allocated(p)
          /\ p # q => Allocated(p) \cap Allocated(q) = {}
    /\ \A p \in DOMAIN calls : heap[calls[p].arg] = calls[p].input
    /\ \A p \in Ended :
          /\ calls[p].error = RunAlone(calls[p]).error
          /\ calls[p].pc = "returned"
                => heap[calls[p].result] = RunAlone(calls[p]).heap[RunAlone(calls[p]).ret]

\* two calls on the same identifier with the same key have both returned,
\* the second having allocated its message before the first allocated its
\* result
C17_Witness ==
    /\ Len(calls) = 2
    /\ calls[1].pc = "returned"
    /\ calls[2].pc = "returned"
    /\ calls[2].arg = calls[1].arg
    /\ calls[2].key = calls[1].key
    /\ calls[2].sipInput < calls[1].result
    /\ calls[1].sipInput < calls[2].sipInput
    /\ heap[calls[1].result] # calls[1].input

(***************************************************************************)
(* The properties of parsing and formatting, under StringSpec.             *)
(***************************************************************************)
\* the 22 characters 0-9, a-f, A-F
HexDigits == (48..57) \cup (97..102) \cup (65..70)

\* s has 36 characters, '-' at positions 8, 13, 18 and 23 and a hex digit at
\* each other position
Canonical(s) ==
    /\ Len(s) = 36
    /\ \A pos \in 0..35 :
          IF pos \in {8, 13, 18, 23} THEN s[pos + 1] = 45 ELSE s[pos + 1] \in HexDigits

\* C18, as stated: parseUUID raises an error, and isValidUUIDString returns
\* false, for every string that is not 36 characters long with '-' at
\* positions 8, 13, 18 and 23 and one of the 22 characters 0-9, a-f, A-F at
\* each other position: no other character code is taken for a hex digit.
C18_StringValidation ==
    \A c \in DOMAIN calls :
        /\ (calls[c].fn = "parseUUID" /\ ~Canonical(calls[c].args[1]))
              => calls[c].error # NoError
        /\ (calls[c].fn = "isValidUUIDString" /\ ~Canonical(calls[c].args[1]))
              => calls[c].results = <<FALSE>>

\* parseUUID was given a string that is canonical but for one character
C18_Witness ==
    \E c \in DOMAIN calls :
        /\ calls[c].fn = "parseUUID"
        /\ Len(calls[c].args[1]) = 36
        /\ ~Canonical(calls[c].args[1])
        /\ calls[c].error # NoError

\* the character codes the lookup table takes for a hex digit besides the
\* 22: those 32 below the digits
BelowDigits == 16..25

\* s is not canonical only in characters the code takes for hex digits:
\* the codes 16-25 and the codes above 255
Accepted(s) ==
    /\ Len(s) = 36
    /\ \A pos \in 0..35 :
          IF pos \in {8, 13, 18, 23} THEN s[pos + 1] = 45
          ELSE s[pos + 1] \in HexDigits \cup BelowDigits \/ s[pos + 1] > 255

\* C18 for the strings the code rejects: those not of the accepted form
C18_RejectsOthers ==
    \A c \in DOMAIN calls :
        /\ calls[c].fn = "parseUUID"
              => (calls[c].error # NoError <=> ~Accepted(calls[c].args[1]))
        /\ calls[c].fn = "isValidUUIDString"
              => (calls[c].results = <<FALSE>> <=> ~Accepted(calls[c].args[1]))

\* s.toLowerCase(), for the characters A-Z
ToLowerCase(s) == [i \in DOMAIN s |-> IF s[i] \in 65..90 THEN s[i] + 32 ELSE s[i]]

\* call c was given what the call before it, a call of fn, returned
Chained(c, fn) ==
    /\ c > 1
    /\ calls[c - 1].fn = fn
    /\ calls[c - 1].error = NoError
    /\ calls[c].args = calls[c - 1].results

\* C19: parseUUID(formatUUID(B)) is a Buffer with the bytes of B, for every
\* 16-byte Buffer B; and formatUUID(parseUUID(s)) is s in lower case, for
\* every canonical string s in upper or lower case.
C19_ParseFormatRoundTrip ==
    \A c \in DOMAIN calls :
        /\ (calls[c].fn = "parseUUID" /\ Chained(c, "formatUUID"))
              => /\ calls[c].error = NoError
                 /\ calls[c].after[calls[c].results[1]]
                        = calls[c - 1].before[calls[c - 1].args[1]]
        /\ (calls[c].fn = "parseUUID" /\ Canonical(calls[c].args[1]))
              => calls[c].error = NoError
        /\ (calls[c].fn = "formatUUID" /\ Chained(c, "parseUUID")
                /\ Canonical(calls[c - 1].args[1]))
              => calls[c].results[1] = ToLowerCase(calls[c - 1].args[1])

\* a Buffer with a byte whose two hex digits differ was formatted and the
\* string parsed into another Buffer
FormatThenParse ==
    /\ Len(calls) = 2
    /\ calls[2].fn = "parseUUID"
    /\ Chained(2, "formatUUID")
    /\ calls[2].error = NoError
    /\ \E i \in 0..15 : At(heap[1], i) > 15 /\ At(heap[1], i) % 17 # 0
    /\ calls[2].results[1] # calls[1].args[1]

\* a canonical string with upper case letters was parsed and the Buffer
\* formatted
ParseThenFormat ==
    /\ Len(calls) = 2
    /\ calls[2].fn = "formatUUID"
    /\ Chained(2, "parseUUID")
    /\ Canonical(calls[1].args[1])
    /\ calls[1].args[1] # ToLowerCase(calls[1].args[1])
    /\ calls[2].results[1] # calls[1].args[1]

\* one of the two round trips of C19 was made
C19_Witness == FormatThenParse \/ ParseThenFormat

\* the calls of extractTimestampFromV7
TimestampCalls == {c \in DOMAIN calls : calls[c].fn = "extractTimestampFromV7"}

\* bit k of the 48-bit number whose bytes, highest first, are bytes 0-5 of
\* uuid
TimestampBit(uuid, k) == (uuid[6 - (k \div 8)] \div (2 ^ (k % 8))) % 2 = 1

\* C20: for an identifier with version nibble 7, extractTimestampFromV7
\* returns the Date whose millisecond value is bytes 0-5 read big-endian; for
\* any other version nibble v it raises an error that says version v was
\* found; the identifier is left as it was.
C20_ExtractTimestamp ==
    \A c \in TimestampCalls :
        LET uuid == calls[c].before[calls[c].args[1]]
            v == uuid[7] \div 16
        IN  /\ calls[c].after = calls[c].before
            /\ v = 7 => /\ calls[c].error = NoError
                        /\ Len(calls[c].results) = 1
                        /\ calls[c].results[1].time = {k \in 0..47 : TimestampBit(uuid, k)}
            /\ v # 7 => /\ calls[c].results = <<>>
                        /\ calls[c].error = "Cannot extract timestamp: UUID is version "
                                               \o ToString(v) \o ", expected version 7"

\* the Date of the given time value was returned
TimestampOf(time) ==
    \E c \in TimestampCalls : calls[c].error = NoError /\ calls[c].results[1].time = time

\* the timestamp of 018f4e7c-3c4a-7000-8000-123456789abc, six bytes that
\* differ, was extracted
C20_Witness == TimestampOf(Hex(<<\H01, \H8f, \H4e, \H7c, \H3c, \H4a>>))

\* an identifier of a version other than 7 was refused
C20_WitnessRefused == \E c \in TimestampCalls : calls[c].error # NoError

\* the timestamps 0 and 2^48 - 1 were extracted
C20_WitnessZero == TimestampOf({})

C20_WitnessMax == TimestampOf(0..47)

(***************************************************************************)
(* The documented example, under DateSpec.                                 *)
(***************************************************************************)
RECURSIVE Decimal(_)
\* the bigint written in decimal with the digits ds
Decimal(ds) ==
    IF ds = <<>> THEN {}
    ELSE LET front == Decimal(SubSeq(ds, 1, Len(ds) - 1))
         IN  BigAdd(BigAdd(BigShl(front, 3), BigShl(front, 1)), BigInt(ds[Len(ds)]))

\* "018f4e7c-3c4a-7000-8000-123456789abc"
ExampleString ==
    <<48, 49, 56, 102, 52, 101, 55, 99, 45, 51, 99, 52, 97, 45, 55, 48, 48, 48, 45,
      56, 48, 48, 48, 45, 49, 50, 51, 52, 53, 54, 55, 56, 57, 97, 98, 99>>

\* the calls extractTimestampFromV7(parseUUID(ExampleString))
ExampleCalls ==
    {c \in TimestampCalls :
        /\ c > 1
        /\ calls[c - 1].fn = "parseUUID"
        /\ calls[c - 1].args[1] = ExampleString
        /\ calls[c].args = calls[c - 1].results}

ValidCalls == {c \in DOMAIN calls : calls[c].fn = "isValidKey"}

\* w is a bigint with 0 <= w < 2^64
Word64(w) == w.type = "bigint" /\ (~w.negative \/ w.magnitude = {}) /\ Below(w.magnitude, 64)

\* x is an object whose k0 and k1 are bigints in the unsigned 64-bit range
KeyInRange(x) == x.type = "object" /\ ~x.null /\ Word64(x.k0) /\ Word64(x.k1)

C22_TypeGuard ==
    \A c \in ValidCalls :
        LET x == calls[c].args[1]
        IN  /\ calls[c].results[1]
                  <=> (x.type = "object" /\ ~x.null /\ x.k0.type = "bigint" /\ x.k1.type = "bigint")
            /\ KeyInRange(x) => calls[c].results[1]

(***************************************************************************)
(* The properties of the mask, under MessageSpec and Spec.                 *)
(***************************************************************************)
\* ts(U): bytes 0-5 of uuid read big-endian
Timestamp(uuid) == Hex(SubSeq(uuid, 1, 6))

\* H mod 2^48, for H the SipHash-2-4 digest under key of the message of
\* uuid, computed by the general routine
Mask(uuid, key) == computeSipHash(MaskInput(uuid), key) \cap (0..47)

\* the calls of encodeV4Facade and decodeV4Facade that returned
FacadeCalls ==
    {c \in DOMAIN calls :
        calls[c].fn \in {"encodeV4Facade", "decodeV4Facade"} /\ calls[c].error = NoError}

\* C23: timestamp masking.  Bytes 0-5 of what encodeV4Facade returns for a
\* version-7 identifier U and key K are ts(U) XOR (H mod 2^48), H the
\* SipHash-2-4 digest of buildSipHashInput(U) under K; decodeV4Facade applies
\* the same XOR, with the mask of its own input.
C23_TimestampMasking ==
    \A c \in FacadeCalls :
        Timestamp(Output(calls[c]))
            = BigXor(Timestamp(Input(calls[c])), Mask(Input(calls[c]), keys[calls[c].key]))

\* encodeV4Facade returned a timestamp that differs from the one given in
\* the top byte and in the bottom byte, and decodeV4Facade was applied to it
C23_Witness ==
    /\ Len(calls) = 2
    /\ calls[1].fn = "encodeV4Facade"
    /\ calls[2].fn = "decodeV4Facade"
    /\ FacadeCalls = {1, 2}
    /\ calls[2].args = calls[1].results
    /\ Output(calls[1])[1] # Input(calls[1])[1]
    /\ Output(calls[1])[6] # Input(calls[1])[6]

(***************************************************************************)
(* The properties of the arithmetic of SipHash, under RoundSpec.           *)
(***************************************************************************)
\* a run is in progress or done, with a key of two words below 2^64 and a
\* message shorter than 256 bytes
RunInRange ==
    /\ sip.pc # "idle"
    /\ Below(keys[sip.key].k0, 64) /\ Below(keys[sip.key].k1, 64)
    /\ Len(sip.input) < 256

\* C24: 64-bit wraparound.  In computeSipHash and computeSipHashFixed10Bytes,
\* for a key of two words below 2^64 and a message shorter than 256 bytes,
\* v0..v3 are below 2^64 after the initialisation, after every XOR of a
\* message word and after every round, each addition of a round is assigned
\* the sum of its operands modulo 2^64, and the digest returned is below
\* 2^64.
C24_Wraparound ==
    RunInRange
        => /\ \A j \in 1..4 : Below(sip.v[j], 64) /\ -1 \notin sip.v[j]
           /\ \A s \in sip.sums :
                 /\ Below(s.x, 64) /\ Below(s.y, 64)
                 /\ s.sum = BigAdd(s.x, s.y) \cap (0..63)
           /\ sip.pc = "done" => Below(sip.digest, 64) /\ -1 \notin sip.digest

\* a round has run on a message of two words and more in which an addition
\* carried out of bit 63
C24_Witness ==
    /\ RunInRange
    /\ Len(sip.input) > 10
    /\ sip.i >= 2
    /\ \E s \in sip.sums : 64 \in BigAdd(s.x, s.y)

\* the fast path has returned
C24_WitnessFixed == RunInRange /\ sip.fn = "computeSipHashFixed10Bytes" /\ sip.pc = "done"

\* the statements run one by one return what the functions return
RoundsAgree ==
    sip.pc = "done"
        => sip.digest = IF sip.fn = "computeSipHash"
                        THEN computeSipHash(sip.input, keys[sip.key])
                        ELSE computeSipHashFixed10Bytes(sip.input, keys[sip.key])

(***************************************************************************)
(* The properties of rotateLeft64, under RotateSpec.                       *)
(***************************************************************************)
\* C25: rotateLeft64(v, n), for 0 <= v < 2^64 and 0 <= n <= 64, is the 64-bit
\* left rotation: the result is below 2^64, bit i of v is bit (i + n) mod 64
\* of the result, n = 0 and n = 64 return v, and rotating by a and then by b
\* is rotating by a + b when a + b <= 64.
C25_Rotation ==
    /\ \A c \in DOMAIN calls :
          LET v == calls[c].args[1]
              n == calls[c].args[2]
              r == calls[c].results[1]
          IN  /\ Below(r, 64) /\ \A i \in r : i >= 0
              /\ \A i \in 0..63 : i \in v <=> ((i + n) % 64) \in r
              /\ n \in {0, 64} => r = v
    /\ Len(calls) = 2
          => calls[2].results[1]
                = rotateLeft64(calls[1].args[1], calls[1].args[2] + calls[2].args[2])

\* a word with set and clear bits was rotated by a bits and the result by b
\* bits, a + b = 64, so that bits wrapped round in both
C25_Witness ==
    /\ Len(calls) = 2
    /\ calls[1].args[1] = Hex(<<\Haa, \Hbb, \Hcc, \Hdd, \Hee, \Hff, \H11, \H22>>)
    /\ calls[1].args[2] = 8
    /\ calls[2].args[2] = 56
    /\ calls[2].results[1] = calls[1].args[1]
    /\ calls[1].results[1] = Hex(<<\Hbb, \Hcc, \Hdd, \Hee, \Hff, \H11, \H22, \Haa>>)

(***************************************************************************)
(* The round trips in both directions, under MessageSpec.                  *)
(***************************************************************************)
\* the second call was given what the first returned, and the same key
SecondOnFirst(first, second) ==
    /\ Len(calls) = 2
    /\ calls[1].fn = first
    /\ calls[2].fn = second
    /\ calls[1].error = NoError
    /\ calls[2].args = calls[1].results
    /\ calls[2].key = calls[1].key

\* C26: reverse round trip.  When decodeV4Facade is given an identifier F
\* with version nibble 4 and variant bits 10 and encodeV4Facade is given what
\* it returned and the same key, both return and the encoded buffer equals F
\* in all 16 bytes.
C26_ReverseRoundTrip ==
    /\ (calls # <<>> /\ calls[1].fn = "decodeV4Facade"
            /\ VersionNibble(Input(calls[1])) = 4)
          => calls[1].error = NoError
    /\ (SecondOnFirst("decodeV4Facade", "encodeV4Facade") /\ VariantBits(Input(calls[1])) = 2)
          => /\ calls[2].error = NoError
             /\ Output(calls[2]) = Input(calls[1])

\* the reverse round trip was made, and the identifier in the middle differs
\* from F in its timestamp
C26_Witness ==
    /\ SecondOnFirst("decodeV4Facade", "encodeV4Facade")
    /\ VariantBits(Input(calls[1])) = 2
    /\ calls[2].error = NoError
    /\ SubSeq(Output(calls[1]), 1, 6) # SubSeq(Input(calls[1]), 1, 6)

\* uuid with the top two bits of byte 8 set to binary 10
WithVariant10(uuid) == [uuid EXCEPT ![9] = 128 + (uuid[9] % 64)]

\* C27: round trip for any accepted input.  When encodeV4Facade is given an
\* identifier U with version nibble 7, whatever its variant bits, and
\* decodeV4Facade is given what it returned and the same key, both return and
\* the decoded buffer equals U in every bit but the top two of byte 8, which
\* are binary 10.
C27_RoundTripAnyVariant ==
    /\ (calls # <<>> /\ calls[1].fn = "encodeV4Facade"
            /\ VersionNibble(Input(calls[1])) = 7)
          => calls[1].error = NoError
    /\ SecondOnFirst("encodeV4Facade", "decodeV4Facade")
          => /\ calls[2].error = NoError
             /\ Output(calls[2]) = WithVariant10(Input(calls[1]))
             /\ VariantBits(Output(calls[2])) = 2

\* the round trip was made from an identifier whose variant bits are 11, and
\* the result differs from it
C27_Witness ==
    /\ SecondOnFirst("encodeV4Facade", "decodeV4Facade")
    /\ VariantBits(Input(calls[1])) = 3
    /\ calls[2].error = NoError
    /\ Output(calls[2]) # Input(calls[1])
    /\ Output(calls[1]) # Input(calls[1])

(***************************************************************************)
(* The properties of two encodings, under PairSpec.                        *)
(***************************************************************************)
\* two calls of fn, on the caller's two identifiers and with one key, both
\* returned
Both(fn) ==
    /\ Len(calls) = 2
    /\ calls[1].fn = fn /\ calls[2].fn = fn
    /\ calls[1].error = NoError /\ calls[2].error = NoError
    /\ calls[1].key = calls[2].key
    /\ calls[1].args # calls[2].args

\* C28, as stated: for a fixed key encodeV4Facade never returns the same
\* facade for two different identifiers that it accepts, those of version
\* nibble 7.
C28_Uniqueness ==
    (Both("encodeV4Facade") /\ Input(calls[1]) # Input(calls[2]))
        => Output(calls[1]) # Output(calls[2])

\* C28, amended: for a fixed key encodeV4Facade returns the same facade for
\* two identifiers of version nibble 7 exactly when they differ in nothing
\* but the top two bits of byte 8; two identifiers with the same variant
\* bits never get the same facade.
C28_UniquenessUpToVariant ==
    Both("encodeV4Facade")
        => (Output(calls[1]) = Output(calls[2])
               <=> WithVariant10(Input(calls[1])) = WithVariant10(Input(calls[2])))

\* two identifiers that differ in one bit of the timestamp were encoded
C28_Witness ==
    /\ Both("encodeV4Facade")
    /\ Input(calls[2]) = Differing(Input(calls[1]), "timestamp bottom")
    /\ Output(calls[1]) # Output(calls[2])

\* two identifiers that differ in the variant bits only were encoded
C28_WitnessVariant ==
    /\ Both("encodeV4Facade")
    /\ Input(calls[2]) = Differing(Input(calls[1]), "variant")
    /\ Output(calls[1]) = Output(calls[2])

\* C30: the mask does not depend on the timestamp.  For two version-7
\* identifiers U1 and U2 with the same random bits (low nibble of byte 6,
\* byte 7, low 6 bits of byte 8, bytes 9-15) and one key,
\* ts(encode(U1)) XOR ts(encode(U2)) = ts(U1) XOR ts(U2).
C30_MaskIgnoresTimestamp ==
    (Both("encodeV4Facade") /\ RandomBits(Input(calls[1])) = RandomBits(Input(calls[2])))
        => BigXor(Timestamp(Output(calls[1])), Timestamp(Output(calls[2])))
              = BigXor(Timestamp(Input(calls[1])), Timestamp(Input(calls[2])))

\* two identifiers with the same random bits and timestamps that differ in
\* every bit were encoded, and both timestamps were changed
C30_Witness ==
    /\ Both("encodeV4Facade")
    /\ Input(calls[2]) = Differing(Input(calls[1]), "timestamp")
    /\ RandomBits(Input(calls[1])) = RandomBits(Input(calls[2]))
    /\ Timestamp(Output(calls[1])) # Timestamp(Input(calls[1]))
    /\ Timestamp(Output(calls[2])) # Timestamp(Input(calls[2]))

(***************************************************************************)
(* The two functions without validation, under OptionsSpec.                *)
(***************************************************************************)
\* encodeV4FacadeWithOptions and decodeV4FacadeWithOptions were called, in
\* either order, with skipValidation: true on the same Buffer with the same
\* key; enc and dec are the two calls
SameInputSkipped(enc, dec) ==
    /\ {enc, dec} = {1, 2}
    /\ Len(calls) = 2
    /\ calls[enc].fn = "encodeV4FacadeWithOptions"
    /\ calls[dec].fn = "decodeV4FacadeWithOptions"
    /\ Skips(calls[enc]) /\ Skips(calls[dec])
    /\ calls[enc].args = calls[dec].args
    /\ calls[enc].key = calls[dec].key

\* uuid with the version nibble replaced
WithVersion(uuid, version) == [uuid EXCEPT ![7] = version * 16 + (uuid[7] % 16)]

\* C29: with skipValidation: true, encodeV4FacadeWithOptions and
\* decodeV4FacadeWithOptions given the same 16-byte input and key both
\* return, and the two buffers differ in the version nibble only, 4 in the
\* one and 7 in the other.
C29_SameButVersion ==
    \A enc, dec \in 1..2 :
        SameInputSkipped(enc, dec)
            => /\ calls[enc].error = NoError /\ calls[dec].error = NoError
               /\ VersionNibble(Output(calls[enc])) = 4
               /\ VersionNibble(Output(calls[dec])) = 7
               /\ Output(calls[dec]) = WithVersion(Output(calls[enc]), 7)

\* both were called on an identifier that is neither of version 4 nor of
\* version 7, and the timestamp returned is not the one given
C29_Witness ==
    /\ SameInputSkipped(1, 2)
    /\ VersionNibble(Input(calls[1])) \notin {4, 7}
    /\ calls[2].error = NoError
    /\ Timestamp(Output(calls[1])) # Timestamp(Input(calls[1]))
    /\ Output(calls[1]) # Output(calls[2])

====
